---- MODULE Spec2Model ----
(***************************************************************************)
(* AutoPyTabs: the code-versioning core (version_code, _upgrade_code), the *)
(* hybrid memory / file-system Cache, and the block conversion that uses   *)
(* them.                                                                   *)
(*                                                                         *)
(* Texts (code, cached content) are modelled as naturals: the code only    *)
(* compares texts for equality and tests them for emptiness, so a text is  *)
(* an identity, and EmptyText is the empty string "".                      *)
(***************************************************************************)
EXTENDS Integers, Sequences, FiniteSets, TLC

(***************************************************************************)
(* Bounds of the model.                                                    *)
(***************************************************************************)
\* cache keys used by the calls made directly on a Cache
NumKeys == 2
\* texts 0..MaxContent can be stored by direct calls on a Cache
MaxContent == 1
\* code texts 0..MaxCode exist for blocks and for the rewrite's outputs
MaxCode == 2
\* max_version is at most BaseMajor.(BaseMinor + MinorSpan)
MinorSpan == 1
\* blocks converted in one run of the model
MaxCalls == 2
\* builds run one after the other on the same directory
MaxBuilds == 2
\* get_version_requirements is called with majors BaseMajor - 1 ..
\* BaseMajor - 1 + MajorSpan
MajorSpan == 1
\* and with minors 0 .. MaxMinor
MaxMinor == 3
\* read processes of a parallel sphinx build
NumWorkers == 2
\* lines of a document
MaxLines == 4
\* characters of the indentation of a block
MaxIndent == 2
\* lines between the fences of a block
MaxBody == 2

(***************************************************************************)
(* Program constants.                                                      *)
(***************************************************************************)
\* "" : the one text that is falsy in `if cached_code := cache.get(key)`
EmptyText == 0
\* the None returned by dict.get for a missing key
None == -1
\* default auto_pytabs_min_version = (3, 7)
BaseMajor == 3
BaseMinor == 7

Contents == 0..MaxContent
Codes == 0..MaxCode
Minors == BaseMinor..(BaseMinor + MinorSpan)
\* VersionTuple(major, minor); _upgrade_code targets "py3<minor>"
VersionTuples == {BaseMajor} \X Minors

(***************************************************************************)
(* dict helpers: a dict is a function on the finite set of its keys.       *)
(***************************************************************************)
EmptyDict == [x \in {} |-> None]

DictGet(d, k) == IF k \in DOMAIN d THEN d[k] ELSE None

DictPut(d, k, v) == [x \in (DOMAIN d) \cup {k} |-> IF x = k THEN v ELSE d[x]]

\* a key made of the code alone
MakeCacheKeyCodeOnly(code, version) == <<code, BaseMajor, BaseMinor>>

(***************************************************************************)
(* Cache.make_cache_key: sha1 over the concatenation of str(code) and      *)
(* str(version).  str(version) is "VersionTuple(major=M, minor=N)", so the *)
(* concatenation determines both parts; with sha1 taken as collision-free  *)
(* the key is the pair itself.                                             *)
(***************************************************************************)
make_cache_key(code, version) == <<code, version[1], version[2]>>

\* the keys that direct calls on a Cache use
SessionKeys == {make_cache_key(c, <<BaseMajor, BaseMinor>>) : c \in 1..NumKeys}

(***************************************************************************)
(* The Cache object is c = [mem |-> _cache, touched |-> _touched]; the     *)
(* directory is d = [exists |-> cache_dir exists, files |-> the files of   *)
(* cache_content_dir, name -> text].                                       *)
(***************************************************************************)
\* Cache._init_cache_dir: mkdir(exist_ok, parents); existing files stay
_init_cache_dir(d) == [exists |-> TRUE, files |-> d.files]

\* Cache.__init__ / Cache._load: every file of the content directory is read
\* into _cache; _touched starts empty
_load(d) == [mem |-> _init_cache_dir(d).files, touched |-> {}]

\* Cache.get: marks the key touched, returns _cache.get(key)
get(c, key) == [cache |-> [c EXCEPT !.touched = @ \cup {key}], ret |-> DictGet(c.mem, key)]

\* a set that keeps the entry a key already has (dict.setdefault)
SetKeepsFirst(c, key, content) == [mem |-> IF key \in DOMAIN c.mem THEN c.mem ELSE DictPut(c.mem, key, content), touched |-> c.touched \cup {key}]

\* Cache.set: stores in memory, marks the key touched
set(c, key, content) == [mem |-> DictPut(c.mem, key, content), touched |-> c.touched \cup {key}]

\* a persist without the `elif evict` branch: nothing is unlinked
PersistNoUnlink(c, d, evict) ==
    IF ~d.exists THEN d
    ELSE LET written == (DOMAIN c.mem) \cap c.touched
         IN [d EXCEPT !.files = [k \in (DOMAIN d.files) \cup written |-> IF k \in written THEN c.mem[k] ELSE d.files[k]]]

\* a persist that unlinks the untouched entries whatever evict is
PersistAlwaysUnlinks(c, d, evict) ==
    IF ~d.exists THEN d
    ELSE LET written == (DOMAIN c.mem) \cap c.touched
             unlinked == (DOMAIN c.mem) \ c.touched
         IN [d EXCEPT !.files = [k \in ((DOMAIN d.files) \ unlinked) \cup written |-> IF k \in written THEN c.mem[k] ELSE d.files[k]]]

\* Cache.persist: one task per entry of _cache; a touched entry is written,
\* an untouched one is unlinked when evict.  The executor is joined before
\* the call returns and no future's result is read, so a task that raises
\* (the directory is gone: FileNotFoundError) is dropped silently.  _cache
\* itself is not changed.
persist(c, d, evict) ==
    IF ~d.exists THEN d
    ELSE LET written == (DOMAIN c.mem) \cap c.touched
             unlinked == IF evict THEN (DOMAIN c.mem) \ c.touched ELSE {}
         IN [d EXCEPT !.files = [k \in ((DOMAIN d.files) \ unlinked) \cup written |-> IF k \in written THEN c.mem[k] ELSE d.files[k]]]

\* the keys whose write_text task of a persist raises: the content
\* directory is gone, so every write raises FileNotFoundError (a missing
\* file is no error for unlink(missing_ok=True))
WriteFailures(c, d) == IF d.exists THEN {} ELSE (DOMAIN c.mem) \cap c.touched

\* a clear_all that forgets to empty _cache
ClearAllKeepsMemory(c) == [mem |-> c.mem, touched |-> {}]

\* Cache.clear_all, the object: both collections are emptied
clear_all(c) == [mem |-> EmptyDict, touched |-> {}]

\* Cache.clear_all, the directory: rmtree(cache_dir) when it exists
clear_all_dir(d) == [exists |-> FALSE, files |-> EmptyDict]

(***************************************************************************)
(* State.                                                                  *)
(***************************************************************************)
VARIABLES
    _cache,             \* Cache._cache: key -> content
    _touched,           \* Cache._touched
    cache_dir,          \* whether .auto_pytabs_cache exists on disk
    cache_content_dir,  \* the files of .auto_pytabs_cache/content: name -> text
    loaded,             \* history: what _load read at construction (and clear_all has not dropped)
    last_set,           \* history: key -> content of the latest set since construction (or clear_all)
    op                  \* history: the call that was made last, with what it returned

cache_vars == <<_cache, _touched, cache_dir, cache_content_dir, loaded, last_set, op>>

CacheObj == [mem |-> _cache, touched |-> _touched]

Dir == [exists |-> cache_dir, files |-> cache_content_dir]

NoKey == <<>>

OpRecord(name, key, content, evict, ret) == [name |-> name, key |-> key, content |-> content, evict |-> evict, ret |-> ret]

(***************************************************************************)
(* Calls on one Cache instance.                                            *)
(***************************************************************************)
\* cache = Cache() on a directory left by earlier builds (or on none)
NewCacheOn(d) ==
    /\ _cache' = _load(d).mem
    /\ _touched' = _load(d).touched
    /\ cache_dir' = _init_cache_dir(d).exists
    /\ cache_content_dir' = _init_cache_dir(d).files
    /\ loaded' = _load(d).mem
    /\ last_set' = EmptyDict
    /\ op' = OpRecord("init", NoKey, None, FALSE, None)

CallGet(key) ==
    /\ _cache' = get(CacheObj, key).cache.mem
    /\ _touched' = get(CacheObj, key).cache.touched
    /\ op' = OpRecord("get", key, None, FALSE, get(CacheObj, key).ret)
    /\ UNCHANGED <<cache_dir, cache_content_dir, loaded, last_set>>

\* a set that also writes the file at once
CallSetWriteThrough(key, content) ==
    /\ _cache' = set(CacheObj, key, content).mem
    /\ _touched' = set(CacheObj, key, content).touched
    /\ cache_content_dir' = IF cache_dir THEN DictPut(cache_content_dir, key, content) ELSE cache_content_dir
    /\ last_set' = DictPut(last_set, key, content)
    /\ op' = OpRecord("set", key, content, FALSE, None)
    /\ UNCHANGED <<cache_dir, loaded>>

CallSet(key, content) ==
    /\ _cache' = set(CacheObj, key, content).mem
    /\ _touched' = set(CacheObj, key, content).touched
    /\ last_set' = DictPut(last_set, key, content)
    /\ op' = OpRecord("set", key, content, FALSE, None)
    /\ UNCHANGED <<cache_dir, cache_content_dir, loaded>>

CallPersist(evict) ==
    /\ cache_content_dir' = persist(CacheObj, Dir, evict).files
    /\ cache_dir' = persist(CacheObj, Dir, evict).exists
    /\ op' = OpRecord("persist", NoKey, None, evict, None)
    /\ UNCHANGED <<_cache, _touched, loaded, last_set>>

CallClearAll ==
    /\ _cache' = clear_all(CacheObj).mem
    /\ _touched' = clear_all(CacheObj).touched
    /\ cache_dir' = clear_all_dir(Dir).exists
    /\ cache_content_dir' = clear_all_dir(Dir).files
    /\ loaded' = EmptyDict
    /\ last_set' = EmptyDict
    /\ op' = OpRecord("clear_all", NoKey, None, FALSE, None)

\* the build ends and the next one constructs a new Cache on the same directory
NewCache == NewCacheOn(Dir)

\* the content directories an earlier build can have left
DirsOnDisk == {[exists |-> TRUE, files |-> f] : f \in UNION {[ks -> Contents] : ks \in SUBSET SessionKeys}}

(***************************************************************************)
(* Versions.                                                               *)
(***************************************************************************)
Max0(n) == IF n < 0 THEN 0 ELSE n

\* a get_version_requirements whose ranges leave out the upper bounds
VersionRequirementsExclusive(min_version, max_version) ==
    LET n_major == Max0(max_version[1] - min_version[1])
        n_minor == Max0(max_version[2] - min_version[2])
    IN [i \in 1..(n_major * n_minor) |-> <<min_version[1] + ((i - 1) \div n_minor), min_version[2] + ((i - 1) % n_minor)>>]

\* get_version_requirements: [(major, minor) for major in range(min_major,
\* max_major + 1) for minor in range(min_minor, max_minor + 1)]
get_version_requirements(min_version, max_version) ==
    LET n_major == Max0(max_version[1] - min_version[1] + 1)
        n_minor == Max0(max_version[2] - min_version[2] + 1)
    IN [i \in 1..(n_major * n_minor) |-> <<min_version[1] + ((i - 1) \div n_minor), min_version[2] + ((i - 1) % n_minor)>>]

\* the version lists of the configurations with the default min_version
\* and any max_version above it (ruff's output is arbitrary per target, so
\* lists of one length differ only in the names of their versions)
VersionLists == {get_version_requirements(<<BaseMajor, BaseMinor>>, hi) : hi \in VersionTuples}

(***************************************************************************)
(* The rewrite and its cache.                                              *)
(***************************************************************************)
VARIABLES
    versions,        \* the build's version_requirements
    use_cache,       \* whether the build passes a Cache (no_cache is unset)
    ruff_memo,       \* what ruff printed so far: <<source, minor>> -> output
    pc,              \* "idle" | "loop" | "done" | "raised": where the conversion of a block is
    code,            \* version_code's code argument
    idx,             \* position of the for loop in version_requirements
    latest_code,     \* version_code's latest_code
    versioned_code,  \* version_code's dict, in insertion order
    upgraded_code,   \* what the last _upgrade_code call returned
    ran_ruff,        \* whether the last _upgrade_code call ran ruff
    calls,           \* blocks converted so far in this build
    out              \* what the conversion of the block emitted

vc_vars == <<versions, use_cache, ruff_memo, pc, code, idx, latest_code, versioned_code, upgraded_code, ran_ruff, calls, out>>

VARIABLES
    framework,       \* "sphinx" | "mkdocs": which integration runs the build
    no_cache,        \* the auto_pytabs_no_cache / no_cache option
    phase,           \* "config" | "reading" | "finished": where the build is
    exception,       \* whether the build ended with an exception
    persist_calls,   \* history: the evict argument of each persist call of this build
    builds           \* builds started so far on this directory

build_vars == <<framework, no_cache, phase, exception, persist_calls, builds>>

VARIABLES
    lines,           \* _extract_code_blocks' argument: the lines of the document
    line_no,         \* the for loop's i: index (from 0) of the line it reads next
    in_block,        \* _extract_code_blocks' in_block
    enabled,         \* _extract_code_blocks' enabled
    new_lines,       \* _extract_code_blocks' new_lines
    to_transform,    \* _extract_code_blocks' to_transform: index in new_lines -> block
    start,           \* _extract_code_blocks' start (index from 0)
    xpc              \* "scan" | "done" | "error": scanning, returned, raised

extract_vars == <<lines, line_no, in_block, enabled, new_lines, to_transform, start, xpc>>

VARIABLES
    block_lines,         \* _convert_block's block: the lines of the block that is rendered
    tab_title_template,  \* the tab_title_template option
    default_tab,         \* auto_pytabs_default_tab: "highest" | "lowest"
    reverse_order,       \* auto_pytabs_reverse_order
    compat,              \* auto_pytabs_compat_mode
    rendered,            \* the lines that replace the block
    rpc                  \* "ready" | "markdown" | "sphinx": who rendered

render_vars == <<block_lines, tab_title_template, default_tab, reverse_order, compat, rendered, rpc>>

VARIABLES
    ruff_failures    \* history: the cache keys of the ruff runs of this conversion that exited with an error

ruff_vars == <<ruff_failures>>

VARIABLES
    abs_src_path,    \* docs_file.abs_src_path: "source" | "tmp"
    tmp_docs_file,   \* the temporary file: whether it was written, and its lines
    to_replace,      \* _transform_pending's to_replace: index -> converted text
    completed,       \* history: the indexes in the order as_completed yielded them
    tpc,             \* "none" | "collect" | "written" | "raised": the _transform_pending task
    fpc              \* "files" | "pool" | "returned" | "raised": where on_files is

pending_vars == <<abs_src_path, tmp_docs_file, to_replace, completed, tpc, fpc>>

VARIABLES
    unreadable,      \* the names of the files of the content directory whose read_text raises
    lpc              \* "new" | "constructed" | "raised": where Cache() is

load_vars == <<unreadable, lpc>>

VARIABLES
    arg_min,         \* the min_version a call of get_version_requirements is given
    arg_max,         \* its max_version
    requirements,    \* the list the call returned
    gpc              \* "call" | "done": where the call is

versions_vars == <<arg_min, arg_max, requirements, gpc>>

VARIABLES
    up_fix,          \* what the fixes of the UP rules make of each text, for the target
    f401_fix,        \* what the fix of F401 (unused imports) makes of each text
    cl_code,         \* the code a call of _upgrade_code is given
    cl_ret,          \* what the call returned
    cpc              \* "call" | "done": where the call is

cleanup_vars == <<up_fix, f401_fix, cl_code, cl_ret, cpc>>

VARIABLES
    workers          \* the read processes of a parallel sphinx build: for each its state
                     \* ("idle" | "running" | "merged"), the copy of the Cache in its
                     \* environment (mem, touched) and, as history, what it set (sets)

merge_vars == <<workers>>

VARIABLES
    compat_mode,     \* the auto_pytabs_compat_mode option of the sphinx project
    pending,         \* the directives docutils has still to run, the next one first
    stock_runs       \* history: the directives the stock CodeBlock has rendered

directive_vars == <<compat_mode, pending, stock_runs>>

\* the variables of the sections on single functions and on parallel builds
more_vars == <<versions_vars, cleanup_vars, merge_vars, directive_vars>>

\* the variables of the later sections: none of the calls on a Cache, the
\* conversions, the build hooks and the line scanner touches them
rest_vars == <<render_vars, ruff_vars, pending_vars, load_vars, more_vars>>

vars == <<cache_vars, vc_vars, build_vars, extract_vars, rest_vars>>

\* _run_ruff: the stdout of `ruff ... --target-version py3<minor>` on the
\* source: any text, and the same text whenever the same source is given
\* for the same target
_run_ruff(source, minor) == IF <<source, minor>> \in DOMAIN ruff_memo THEN {ruff_memo[<<source, minor>>]} ELSE Codes

\* _upgrade_code; ruff_out is what _run_ruff prints if it is run.  The cache
\* is consulted with `if cached_code := cache.get(cache_key)`: a cached
\* text counts only when it is truthy.
_upgrade_code(source, min_version, c, has_cache, ruff_out) ==
    LET cache_key == make_cache_key(source, min_version)
        cached_code == get(c, cache_key)
    IN IF has_cache /\ cached_code.ret # None /\ cached_code.ret # EmptyText
       THEN [ret |-> cached_code.ret, cache |-> cached_code.cache, ran |-> FALSE]
       ELSE [ret |-> ruff_out, cache |-> IF has_cache THEN set(cached_code.cache, cache_key, ruff_out) ELSE c, ran |-> TRUE]

\* an insertion-ordered dict as a sequence of [version, code] entries
Entry(version, text) == [version |-> version, code |-> text]

Keys(vc) == {vc[i].version : i \in 1..Len(vc)}

\* a dict that takes every assignment as a new entry
OrderedPutAppends(vc, version, text) == Append(vc, Entry(version, text))

\* versioned_code[version] = text: an existing key keeps its position
OrderedPut(vc, version, text) ==
    IF version \in Keys(vc)
    THEN [i \in 1..Len(vc) |-> IF vc[i].version = version THEN Entry(version, text) ELSE vc[i]]
    ELSE Append(vc, Entry(version, text))

\* versioned_code[version]
Lookup(vc, version) == (CHOOSE i \in 1..Len(vc) : vc[i].version = version)

\* a loop body that compares with the original code, not with latest_code
LoopBodyOnOriginal(st, version, upgraded) ==
    IF upgraded # st.code
    THEN [st EXCEPT !.versioned = OrderedPut(st.versioned, version, upgraded), !.latest = upgraded]
    ELSE st

\* a loop body that never replaces the entry of the first version
LoopBodyNoOverwrite(st, version, upgraded) ==
    IF upgraded # st.latest
    THEN [st EXCEPT !.versioned = IF version \in Keys(st.versioned) THEN @ ELSE Append(@, Entry(version, upgraded)), !.latest = upgraded]
    ELSE st

\* the body of version_code's for loop, after _upgrade_code returned
LoopBody(st, version, upgraded) ==
    IF upgraded # st.latest
    THEN [st EXCEPT !.versioned = OrderedPut(st.versioned, version, upgraded), !.latest = upgraded]
    ELSE st

\* a conversion that renders tabs for a single entry too (`>= 1`)
ConvertAlwaysTabs(vc, version_list) == [kind |-> "tabs", body |-> [i \in 1..Len(vc) |-> vc[i].code]]

\* _convert_block after version_code returned: tabs when there is more than
\* one entry, else one plain fenced block holding versioned_code[versions[0]]
_convert_block(vc, version_list) ==
    IF Len(vc) > 1
    THEN [kind |-> "tabs", body |-> [i \in 1..Len(vc) |-> vc[i].code]]
    ELSE [kind |-> "plain", body |-> <<vc[Lookup(vc, version_list[1])].code>>]

(***************************************************************************)
(* Converting a block: _convert_block / _create_py_tab_nodes call          *)
(* version_code, whose loop makes one _upgrade_code call per version.      *)
(***************************************************************************)
NoOutput == [kind |-> "none", body |-> <<>>]

\* the history of the Cache calls that one _upgrade_code call makes
UpgradeHistory(up, cache_key) ==
    /\ last_set' = IF up.ran /\ use_cache THEN DictPut(last_set, cache_key, up.ret) ELSE last_set
    /\ op' = IF ~use_cache THEN op
             ELSE IF up.ran THEN OpRecord("set", cache_key, up.ret, FALSE, None)
             ELSE OpRecord("get", cache_key, None, FALSE, up.ret)

\* version_code is entered: latest_code = code, versioned_code = {versions[0]: code}
ConvertStart(c) ==
    /\ pc \in {"idle", "done"}
    /\ calls < MaxCalls
    /\ code' = c
    /\ latest_code' = c
    /\ versioned_code' = <<Entry(versions[1], c)>>
    /\ idx' = 1
    /\ pc' = "loop"
    /\ calls' = calls + 1
    /\ out' = NoOutput
    /\ UNCHANGED <<versions, use_cache, ruff_memo, upgraded_code, ran_ruff, cache_vars>>

\* one iteration of `for version in version_requirements`
UpgradeStep ==
    /\ pc = "loop"
    /\ idx <= Len(versions)
    /\ \E ruff_out \in _run_ruff(latest_code, versions[idx][2]) :
          LET up == _upgrade_code(latest_code, versions[idx], CacheObj, use_cache, ruff_out)
              st == LoopBody([code |-> code, latest |-> latest_code, versioned |-> versioned_code], versions[idx], up.ret)
          IN /\ upgraded_code' = up.ret
             /\ ran_ruff' = up.ran
             /\ ruff_memo' = IF up.ran THEN DictPut(ruff_memo, <<latest_code, versions[idx][2]>>, ruff_out) ELSE ruff_memo
             /\ _cache' = up.cache.mem
             /\ _touched' = up.cache.touched
             /\ UpgradeHistory(up, make_cache_key(latest_code, versions[idx]))
             /\ latest_code' = st.latest
             /\ versioned_code' = st.versioned
    /\ idx' = idx + 1
    /\ UNCHANGED <<versions, use_cache, pc, code, calls, out, cache_dir, cache_content_dir, loaded>>

\* version_code returns and the block is rendered
ConvertFinish ==
    /\ pc = "loop"
    /\ idx > Len(versions)
    /\ pc' = "done"
    /\ out' = _convert_block(versioned_code, versions)
    /\ UNCHANGED <<versions, use_cache, ruff_memo, code, idx, latest_code, versioned_code, upgraded_code, ran_ruff, calls, cache_vars>>

(***************************************************************************)
(* The build: the handlers sphinx_ext.setup connects and the hooks of the  *)
(* mkdocs plugin.  A build is one process; the next build starts from the  *)
(* directory the previous one left.                                        *)
(***************************************************************************)
Frameworks == {"sphinx", "mkdocs"}

\* sphinx_ext.on_env_before_read_docs: env.auto_pytabs_cache = Cache()
\* unless auto_pytabs_no_cache
on_env_before_read_docs ==
    /\ framework = "sphinx"
    /\ phase = "config"
    /\ IF no_cache THEN UNCHANGED cache_vars ELSE NewCacheOn(Dir)
    /\ use_cache' = ~no_cache
    /\ phase' = "reading"
    /\ UNCHANGED <<versions, ruff_memo, pc, code, idx, latest_code, versioned_code, upgraded_code, ran_ruff, calls, out>>
    /\ UNCHANGED <<framework, no_cache, exception, persist_calls, builds>>

\* sphinx_ext.on_build_finished(app, exception): `if cache := getattr(
\* app.env, "auto_pytabs_cache", None): cache.persist()`, whatever exception
\* is.  Sphinx emits build-finished with the exception that ended the
\* build, which can be raised anywhere in it.
on_build_finished(exc) ==
    /\ framework = "sphinx"
    /\ phase = "reading"
    /\ exc \/ pc \in {"idle", "done"}
    /\ IF use_cache
       THEN /\ cache_content_dir' = persist(CacheObj, Dir, TRUE).files
            /\ cache_dir' = persist(CacheObj, Dir, TRUE).exists
            /\ op' = OpRecord("persist", NoKey, None, TRUE, None)
            /\ persist_calls' = Append(persist_calls, TRUE)
            /\ UNCHANGED <<_cache, _touched, loaded, last_set>>
       ELSE UNCHANGED <<cache_vars, persist_calls>>
    /\ phase' = "finished"
    /\ exception' = exc
    /\ UNCHANGED <<vc_vars, framework, no_cache, builds>>

\* AutoPyTabsPlugin.on_files is entered: its blocks are converted by
\* _convert_block, which calls version_code without a cache
on_files ==
    /\ framework = "mkdocs"
    /\ phase = "config"
    /\ use_cache' = FALSE
    /\ phase' = "reading"
    /\ UNCHANGED <<versions, ruff_memo, pc, code, idx, latest_code, versioned_code, upgraded_code, ran_ruff, calls, out>>
    /\ UNCHANGED <<cache_vars, framework, no_cache, exception, persist_calls, builds>>

\* AutoPyTabsPlugin.on_post_build: only _cleanup_temp_files
on_post_build ==
    /\ framework = "mkdocs"
    /\ phase = "reading"
    /\ pc \in {"idle", "done"}
    /\ phase' = "finished"
    /\ exception' = FALSE
    /\ UNCHANGED <<cache_vars, vc_vars, framework, no_cache, persist_calls, builds>>

\* AutoPyTabsPlugin.on_build_error: only _cleanup_temp_files
on_build_error ==
    /\ framework = "mkdocs"
    /\ phase = "reading"
    /\ phase' = "finished"
    /\ exception' = TRUE
    /\ UNCHANGED <<cache_vars, vc_vars, framework, no_cache, persist_calls, builds>>

\* the process of the build ends (its Cache object with it) and the next
\* build starts on the directory it left; ruff is the same program
StartBuild ==
    /\ phase = "finished"
    /\ builds < MaxBuilds
    /\ builds' = builds + 1
    /\ phase' = "config"
    /\ exception' = FALSE
    /\ persist_calls' = <<>>
    /\ _cache' = EmptyDict
    /\ _touched' = {}
    /\ loaded' = EmptyDict
    /\ last_set' = EmptyDict
    /\ op' = OpRecord("init", NoKey, None, FALSE, None)
    /\ use_cache' = FALSE
    /\ pc' = "idle"
    /\ code' = EmptyText
    /\ idx' = 1
    /\ latest_code' = EmptyText
    /\ versioned_code' = <<>>
    /\ upgraded_code' = EmptyText
    /\ ran_ruff' = FALSE
    /\ out' = NoOutput
    /\ UNCHANGED <<cache_dir, cache_content_dir, versions, ruff_memo, calls, framework, no_cache>>

(***************************************************************************)
(* markdown_ext._extract_code_blocks.  A line is [kind, n]: n is its       *)
(* position in the document (its identity) and kind is what the two        *)
(* regular expressions make of its text:                                   *)
(*   "py"     RGX_BLOCK_TOKENS group 1: the line holds ```py               *)
(*   "fence"  RGX_BLOCK_TOKENS group 2: a bare ```                         *)
(*   "other"  RGX_BLOCK_TOKENS group 2 too (match, not fullmatch): a fence *)
(*            with another language tag, such as ```js                     *)
(*   "disable", "enable", "disable-block"  RGX_PYTABS_DIRECTIVE with a     *)
(*            keyword of PYTAB_DIRECTIVES                                  *)
(*   "invalid"  RGX_PYTABS_DIRECTIVE with any other keyword                *)
(*   "text"   neither expression matches                                   *)
(***************************************************************************)
PYTAB_DIRECTIVES == {"disable", "enable", "disable-block"}

LineKinds == {"text", "py", "fence", "other", "invalid"} \cup PYTAB_DIRECTIVES

Line(kind, n) == [kind |-> kind, n |-> n]

\* the documents of at most MaxLines lines
Docs(len) == {[n \in 1..len |-> Line(ks[n], n)] : ks \in [1..len -> LineKinds]}

\* new_lines.append(""): the placeholder line
Placeholder == Line("text", 0)

\* a directive parser that takes a comment with an unknown keyword for no
\* directive at all
GetDirectiveIgnoresUnknown(line) ==
    IF line.kind \in PYTAB_DIRECTIVES THEN line.kind ELSE "None"

\* _get_pytabs_directive: the directive of the line, "None" when the line
\* is no directive comment, "RuntimeError" when its keyword is unknown
_get_pytabs_directive(line) ==
    IF line.kind \in PYTAB_DIRECTIVES THEN line.kind
    ELSE IF line.kind = "invalid" THEN "RuntimeError"
    ELSE "None"

\* RGX_BLOCK_TOKENS.match(line): which group matched
RGX_BLOCK_TOKENS(line) ==
    IF line.kind = "py" THEN 1
    ELSE IF line.kind \in {"fence", "other"} THEN 2
    ELSE 0

\* seq[j] for a Python index j, which may be negative
PyIndex(seq, j) == seq[(j % Len(seq)) + 1]

\* seq[a : b]
PySlice(seq, a, b) == SubSeq(seq, a + 1, b)

\* a directive handling in which enable does not switch conversion back on
EnabledAfterNeverReenables(directive, was) ==
    IF directive = "disable" THEN FALSE ELSE was

\* `if directive == "disable": enabled = False / elif directive ==
\* "enable": enabled = True`
EnabledAfter(directive, was) ==
    IF directive = "disable" THEN FALSE ELSE IF directive = "enable" THEN TRUE ELSE was

\* a loop body that forgets `in_block = False` when a block is closed
ScanLineStaysInBlock(st, doc, j) ==
    LET line == doc[j + 1]
        directive == _get_pytabs_directive(line)
        is_comment_line == directive # "None"
        now_enabled == EnabledAfter(directive, st.enabled)
        group == RGX_BLOCK_TOKENS(line)
        block == PySlice(doc, st.start, j + 1)
        block_directive == _get_pytabs_directive(PyIndex(doc, st.start - 1))
    IN IF directive = "RuntimeError" THEN [st EXCEPT !.raised = TRUE]
       ELSE IF group = 1 THEN [st EXCEPT !.enabled = now_enabled, !.in_block = TRUE, !.start = j]
       ELSE IF group = 2 /\ st.in_block
            THEN IF block_directive = "RuntimeError" THEN [st EXCEPT !.enabled = now_enabled, !.raised = TRUE]
                 ELSE IF now_enabled /\ block_directive # "disable-block"
                      THEN [st EXCEPT !.enabled = now_enabled,
                                      !.to_transform = DictPut(@, Len(st.new_lines), block),
                                      !.new_lines = Append(@, Placeholder)]
                      ELSE [st EXCEPT !.enabled = now_enabled, !.new_lines = @ \o block]
       ELSE IF group = 2 THEN [st EXCEPT !.enabled = now_enabled, !.new_lines = Append(@, line)]
       ELSE IF ~st.in_block /\ ~is_comment_line THEN [st EXCEPT !.enabled = now_enabled, !.new_lines = Append(@, line)]
       ELSE [st EXCEPT !.enabled = now_enabled]

\* the body of the for loop of _extract_code_blocks for line number j of
\* doc, on the locals st; raised is set when _get_pytabs_directive raises
ScanLine(st, doc, j) ==
    LET line == doc[j + 1]
        directive == _get_pytabs_directive(line)
        is_comment_line == directive # "None"
        now_enabled == EnabledAfter(directive, st.enabled)
        group == RGX_BLOCK_TOKENS(line)
        block == PySlice(doc, st.start, j + 1)
        block_directive == _get_pytabs_directive(PyIndex(doc, st.start - 1))
    IN IF directive = "RuntimeError" THEN [st EXCEPT !.raised = TRUE]
       ELSE IF group = 1 THEN [st EXCEPT !.enabled = now_enabled, !.in_block = TRUE, !.start = j]
       ELSE IF group = 2 /\ st.in_block
            THEN IF block_directive = "RuntimeError" THEN [st EXCEPT !.enabled = now_enabled, !.in_block = FALSE, !.raised = TRUE]
                 ELSE IF now_enabled /\ block_directive # "disable-block"
                      THEN [st EXCEPT !.enabled = now_enabled, !.in_block = FALSE,
                                      !.to_transform = DictPut(@, Len(st.new_lines), block),
                                      !.new_lines = Append(@, Placeholder)]
                      ELSE [st EXCEPT !.enabled = now_enabled, !.in_block = FALSE, !.new_lines = @ \o block]
       ELSE IF group = 2 THEN [st EXCEPT !.enabled = now_enabled, !.new_lines = Append(@, line)]
       ELSE IF ~st.in_block /\ ~is_comment_line THEN [st EXCEPT !.enabled = now_enabled, !.new_lines = Append(@, line)]
       ELSE [st EXCEPT !.enabled = now_enabled]

Locals == [in_block |-> in_block, enabled |-> enabled, new_lines |-> new_lines, to_transform |-> to_transform, start |-> start, raised |-> FALSE]

\* one iteration of `for i, line in enumerate(lines)`
ExtractLine ==
    /\ xpc = "scan"
    /\ line_no < Len(lines)
    /\ LET st == ScanLine(Locals, lines, line_no)
       IN /\ in_block' = st.in_block
          /\ enabled' = st.enabled
          /\ new_lines' = st.new_lines
          /\ to_transform' = st.to_transform
          /\ start' = st.start
          /\ xpc' = IF st.raised THEN "error" ELSE "scan"
    /\ line_no' = line_no + 1
    /\ UNCHANGED lines

\* `return new_lines, to_transform`
ExtractReturn ==
    /\ xpc = "scan"
    /\ line_no = Len(lines)
    /\ xpc' = "done"
    /\ UNCHANGED <<lines, line_no, in_block, enabled, new_lines, to_transform, start>>

\* _extract_code_blocks is entered with the document doc
ExtractStart(doc) ==
    /\ lines = doc
    /\ line_no = 0
    /\ in_block = FALSE
    /\ enabled = TRUE
    /\ new_lines = <<>>
    /\ to_transform = EmptyDict
    /\ start = 0
    /\ xpc = "scan"

(***************************************************************************)
(* Rendering.  A string is a sequence of pieces: a piece is one character  *)
(* (" ", a tab, the newline NL) or a run of characters that no operation   *)
(* of the code ever splits (a fence marker, a word of code, a keyword of   *)
(* the markup).  A list of lines is a sequence of strings; "" is <<>>.     *)
(***************************************************************************)
NL == "\n"

Quote == "\""

Space == " "

Tab == "\t"

\* sep.join(parts)
RECURSIVE Join(_, _)
Join(sep, parts) ==
    IF Len(parts) = 0 THEN <<>>
    ELSE IF Len(parts) = 1 THEN parts[1]
    ELSE parts[1] \o sep \o Join(sep, Tail(parts))

\* str.splitlines: the text is cut at every newline; a newline at the very
\* end opens no further line, and "" has no line at all
RECURSIVE splitlines(_)
splitlines(text) ==
    LET nls == {i \in 1..Len(text) : text[i] = NL}
    IN IF text = <<>> THEN <<>>
       ELSE IF nls = {} THEN <<text>>
       ELSE LET i == CHOOSE i \in nls : \A k \in nls : i <= k
            IN <<SubSeq(text, 1, i - 1)>> \o splitlines(SubSeq(text, i + 1, Len(text)))

\* the number of leading pieces of s that are the character ch
RECURSIVE LeadingRun(_, _)
LeadingRun(s, ch) == IF s # <<>> /\ s[1] = ch THEN 1 + LeadingRun(Tail(s), ch) ELSE 0

\* ch * n
Times(ch, n) == [i \in 1..n |-> ch]

\* str.removeprefix: the prefix is removed only from a string that starts
\* with it, any other string is returned as it is
removeprefix(s, prefix) ==
    IF Len(s) >= Len(prefix) /\ SubSeq(s, 1, Len(prefix)) = prefix
    THEN SubSeq(s, Len(prefix) + 1, Len(s))
    ELSE s

\* [f(line) for line in lines] with f = indentation + line
PrefixAll(prefix, lines_) == [i \in 1..Len(lines_) |-> prefix \o lines_[i]]

\* strip_indentation: the indentation is the run of the first line's first
\* character when that is a space or a tab, and it is removed from every
\* line that starts with it.  The first line of a block holds the fence,
\* so first_line[0] exists.
strip_indentation(lines_) ==
    IF lines_ = <<>> THEN [lines |-> <<>>, indentation |-> <<>>]
    ELSE LET first_line == lines_[1]
             indent_char == IF first_line[1] \in {Space, Tab} THEN <<first_line[1]>> ELSE <<>>
             run == IF indent_char = <<>> THEN <<>> ELSE Times(indent_char[1], LeadingRun(first_line, indent_char[1]))
         IN [lines |-> [i \in 1..Len(lines_) |-> removeprefix(lines_[i], run)], indentation |-> run]

\* an add_indentation that leaves empty lines empty
AddIndentationSkipsEmpty(text, indentation) ==
    Join(<<NL>>, [i \in 1..Len(splitlines(text)) |-> IF splitlines(text)[i] = <<>> THEN <<>> ELSE indentation \o splitlines(text)[i]])

\* add_indentation: "\n".join(indentation + line for line in code.splitlines())
add_indentation(text, indentation) == Join(<<NL>>, PrefixAll(indentation, splitlines(text)))

\* str(n) for a natural n, one piece per digit
RECURSIVE str(_)
str(n) ==
    LET digit == <<"0", "1", "2", "3", "4", "5", "6", "7", "8", "9">>[(n % 10) + 1]
    IN IF n < 10 THEN <<digit>> ELSE str(n \div 10) \o <<digit>>

\* f"{version[0]}.{version[1]}"
version_string(version) == str(version[1]) \o <<".">> \o str(version[2])

\* the replacement field {min_version} of a tab title template
MinVersionField == "{min_version}"

\* "Python {min_version}+", the default tab_title_template
DefaultTemplate == <<"Python", Space, MinVersionField, "+">>

\* "Python {min_version} and above" (test_upgrade_custom_tab_title)
CustomTemplate == <<"Python", Space, MinVersionField, Space, "and", Space, "above">>

TabTitleTemplates == {DefaultTemplate, CustomTemplate}

\* tab_title_template.format(min_version=version_string)
RECURSIVE format(_, _)
format(template, min_version) ==
    IF template = <<>> THEN <<>>
    ELSE (IF template[1] = MinVersionField THEN min_version ELSE <<template[1]>>) \o format(Tail(template), min_version)

\* indent(...) of sphinx_ext and the "    " of _build_tabs: four spaces
Indent4 == Times(Space, 4)

\* a _build_tabs that renders the tabs from the last entry to the first
BuildTabsReversed(vc, head_, tail_, template) ==
    Join(<<NL>>, [i \in 1..Len(vc) |->
        LET e == vc[Len(vc) + 1 - i]
        IN <<"===", Space, Quote>> \o format(template, version_string(e.version)) \o <<Quote, NL>>
            \o Join(<<NL>>, PrefixAll(Indent4, <<head_>> \o splitlines(e.code) \o <<tail_>>)) \o <<NL>>])

\* _build_tabs: per entry '=== "<title>"\n<code>\n' where <code> is head,
\* the lines of the entry's code and tail, each after four spaces; the
\* entries are joined with newlines
_build_tabs(vc, head_, tail_, template) ==
    Join(<<NL>>, [i \in 1..Len(vc) |->
        <<"===", Space, Quote>> \o format(template, version_string(vc[i].version)) \o <<Quote, NL>>
            \o Join(<<NL>>, PrefixAll(Indent4, <<head_>> \o splitlines(vc[i].code) \o <<tail_>>)) \o <<NL>>])

\* what version_code can return for code and version_list without a cache:
\* the loop of version_code over every text ruff can print for each version
\* (texts holds them; ruff may also print its input back)
RECURSIVE VersionCodeWalk(_, _, _, _)
VersionCodeWalk(st, version_list, i, texts) ==
    IF i > Len(version_list) THEN {st.versioned}
    ELSE UNION {VersionCodeWalk(LoopBody(st, version_list[i], u), version_list, i + 1, texts) : u \in texts \cup {st.latest}}

version_code(text, version_list, texts) ==
    VersionCodeWalk([code |-> text, latest |-> text, versioned |-> <<Entry(version_list[1], text)>>], version_list, 1, texts)

\* markdown_ext._convert_block on the lines of a block, with vc the dict
\* that version_code returned for its code: the text that replaces the block
ConvertBlockText(block_, vc, version_list, template) ==
    LET stripped == strip_indentation(block_)
        head_ == stripped.lines[1]
        tail_ == stripped.lines[Len(stripped.lines)]
        text == IF Len(vc) > 1
                THEN _build_tabs(vc, head_, tail_, template)
                ELSE Join(<<NL>>, <<head_, vc[Lookup(vc, version_list[1])].code, tail_>>)
    IN add_indentation(text, stripped.indentation)

\* the code of a block: "\n".join(code_lines) of the stripped block
BlockCode(block_) ==
    LET stripped == strip_indentation(block_)
    IN Join(<<NL>>, SubSeq(stripped.lines, 2, Len(stripped.lines) - 1))

(***************************************************************************)
(* sphinx_ext: directives are rendered as lists of reStructuredText lines. *)
(* An option is [option, is, value]: is tells whether the value is True,   *)
(* False or a string.                                                      *)
(***************************************************************************)
Option(option, is, value) == [option |-> option, is |-> is, value |-> value]

\* indent(lines): four spaces before every line
indent(lines_) == PrefixAll(Indent4, lines_)

\* f":{option}: {value if (value is not True and value) else ''}"
RenderedOption(o) == <<":", o.option, ":", Space>> \o (IF o.is = "str" THEN o.value ELSE <<>>)

\* _render_directive: the head line, the options whose value is not False
\* (when there are options), an empty line and the indented body
_render_directive(name, argument, options, body) ==
    LET NotFalse(o) == o.is # "False"
        shown == SelectSeq(options, NotFalse)
        rendered_options == [i \in 1..Len(shown) |-> RenderedOption(shown[i])]
    IN <<<<"..", Space, name, "::", Space>> \o argument>>
         \o indent(rendered_options)
         \o <<<<>>>>
         \o indent(body)

\* UpgradeMixin._get_directive_options for a directive without options of
\* its own: {"no-upgrade": True} unless compat
_get_directive_options(compat_) == IF compat_ THEN <<>> ELSE <<Option("no-upgrade", "True", <<>>)>>

\* dict(reversed(versioned_code.items()))
Reversed(vc) == [i \in 1..Len(vc) |-> vc[Len(vc) + 1 - i]]

\* a choice of the default tab that ignores the strategy
DefaultSelectedAlwaysLast(vc, strategy) == vc[Len(vc)].version

\* versions[-1 if default_tab_strategy == "highest" else 0]
default_selected_version(vc, strategy) == IF strategy = "highest" THEN vc[Len(vc)].version ELSE vc[1].version

\* the tab-item of one entry
TabItem(e, template, selected, compat_) ==
    _render_directive("tab-item", format(template, version_string(e.version)),
                      <<Option("sync", "str", version_string(e.version)), Option("selected", IF selected THEN "True" ELSE "False", <<>>)>>,
                      _render_directive("code-block", <<"python">>, _get_directive_options(compat_), splitlines(e.code)))

RECURSIVE Concat(_)
\* the concatenation of a sequence of lists
Concat(lists) == IF lists = <<>> THEN <<>> ELSE lists[1] \o Concat(Tail(lists))

\* UpgradeMixin._create_tabs: a single code-block for one entry, else a
\* tab-set with one tab-item per entry; the default is chosen before the
\* entries are reversed
_create_tabs(vc, template, strategy, reverse, compat_) ==
    IF Len(vc) = 1
    THEN _render_directive("code-block", <<"python">>, _get_directive_options(compat_), splitlines(vc[1].code))
    ELSE LET selected_version == default_selected_version(vc, strategy)
             shown == IF reverse THEN Reversed(vc) ELSE vc
             tab_set_body == Concat([i \in 1..Len(shown) |-> TabItem(shown[i], template, shown[i].version = selected_version, compat_)])
         IN _render_directive("tab-set", <<>>, <<>>, tab_set_body)

(***************************************************************************)
(* Rendering a block: UpgradePreprocessor.run converts a queued block with *)
(* _convert_block; a sphinx directive renders its content with             *)
(* _create_py_tab_nodes.                                                   *)
(***************************************************************************)
\* the indentation prefixes of a block: spaces and tabs, at most MaxIndent
Prefixes == UNION {[1..n -> {Space, Tab}] : n \in 0..MaxIndent}

\* the lines a block of indentation p can hold between its fences: an
\* empty line, code at the margin, code at the depth of the fence, and a
\* line of nothing but the indentation
BodyLines(p) == {<<>>, <<"a">>, p \o <<"a">>, p}

Bodies(p) == UNION {[1..n -> BodyLines(p)] : n \in 0..MaxBody}

\* the piece that stands for the fence marker, three backticks
Fence == "FENCE"

\* head: a python fence with an option; tail: a bare fence
FencedBlock(p, body) == <<p \o <<Fence, "python", Space, "foo=bar">>>> \o body \o <<p \o <<Fence>>>>

\* the texts ruff prints when it changes its input: one line, two lines,
\* and nothing at all (the code was an unused import)
RuffTexts == {<<"b">>, <<"b", NL, "c">>, <<>>}

\* UpgradePreprocessor.run for a queued block: transformed_block =
\* _convert_block(...).splitlines()
ConvertBlock(template) ==
    /\ rpc = "ready"
    /\ \E vc \in version_code(BlockCode(block_lines), versions, RuffTexts) :
          /\ code' = BlockCode(block_lines)
          /\ versioned_code' = vc
          /\ rendered' = splitlines(ConvertBlockText(block_lines, vc, versions, template))
    /\ tab_title_template' = template
    /\ rpc' = "markdown"
    /\ UNCHANGED <<block_lines, default_tab, reverse_order, compat>>
    /\ UNCHANGED <<versions, use_cache, ruff_memo, pc, idx, latest_code, upgraded_code, ran_ruff, calls, out>>

\* UpgradeMixin._create_py_tab_nodes on the content of a directive, which
\* docutils hands over without its indentation: the lines between the
\* fences of an unindented block
_create_py_tab_nodes(template, strategy, reverse, compat_) ==
    /\ rpc = "ready"
    /\ strip_indentation(block_lines).indentation = <<>>
    /\ \E vc \in version_code(BlockCode(block_lines), versions, RuffTexts) :
          /\ code' = BlockCode(block_lines)
          /\ versioned_code' = vc
          /\ rendered' = _create_tabs(vc, template, strategy, reverse, compat_)
    /\ tab_title_template' = template
    /\ default_tab' = strategy
    /\ reverse_order' = reverse
    /\ compat' = compat_
    /\ rpc' = "sphinx"
    /\ UNCHANGED block_lines
    /\ UNCHANGED <<versions, use_cache, ruff_memo, pc, idx, latest_code, upgraded_code, ran_ruff, calls, out>>

\* nothing is being rendered
NoRender ==
    /\ block_lines = <<>>
    /\ tab_title_template = DefaultTemplate
    /\ default_tab = "highest"
    /\ reverse_order = FALSE
    /\ compat = FALSE
    /\ rendered = <<>>
    /\ rpc = "ready"

(***************************************************************************)
(* The ruff process.  _run_ruff starts `ruff ... -` with Popen and returns *)
(* process.communicate(input=source)[0]: what ruff wrote to stdout.  The   *)
(* exit status is never read, so a run that ends with an error (a syntax   *)
(* error in the code, a crash) returns whatever it printed, like any other *)
(* run.  Only Popen itself can raise (OSError: ruff cannot be started).    *)
(***************************************************************************)
\* the exit statuses of a ruff process: 0, or 1 for any error
ReturnCodes == {0, 1}

\* version_code is entered; no ruff run of this conversion has failed yet
RuffConvertStart(c) ==
    /\ ConvertStart(c)
    /\ ruff_failures' = {}

\* one iteration of the loop of version_code in which the ruff process, if
\* one is run, exits with returncode
UpgradeStepExit(returncode) ==
    /\ UpgradeStep
    /\ ruff_failures' = IF ran_ruff' /\ returncode # 0
                        THEN ruff_failures \cup {make_cache_key(latest_code, versions[idx])}
                        ELSE ruff_failures

\* one iteration of the loop in which Popen raises: _upgrade_code has
\* looked the key up (a miss) and the exception leaves version_code
UpgradeStepRaises ==
    /\ pc = "loop"
    /\ idx <= Len(versions)
    /\ LET cache_key == make_cache_key(latest_code, versions[idx])
           cached_code == get(CacheObj, cache_key)
       IN /\ ~(use_cache /\ cached_code.ret # None /\ cached_code.ret # EmptyText)
          /\ _touched' = IF use_cache THEN cached_code.cache.touched ELSE _touched
          /\ op' = IF use_cache THEN OpRecord("get", cache_key, None, FALSE, cached_code.ret) ELSE op
          /\ ruff_failures' = ruff_failures \cup {cache_key}
    /\ pc' = "raised"
    /\ UNCHANGED <<_cache, cache_dir, cache_content_dir, loaded, last_set>>
    /\ UNCHANGED <<versions, use_cache, ruff_memo, code, idx, latest_code, versioned_code, upgraded_code, ran_ruff, calls, out>>

\* version_code returns and the block is rendered
RuffConvertFinish ==
    /\ ConvertFinish
    /\ UNCHANGED ruff_failures

(***************************************************************************)
(* The mkdocs plugin: on_files extracts the blocks of a documentation page *)
(* (extract_blocks_from_file), points the page at a temporary file, and    *)
(* runs _transform_pending in a thread pool; that task submits one         *)
(* conversion per block to a process pool, collects the results as they    *)
(* complete and writes the temporary file.  A text is the list of its      *)
(* lines.                                                                  *)
(***************************************************************************)
\* the for loop of _extract_code_blocks from line number j on
RECURSIVE ScanAll(_, _, _)
ScanAll(st, doc, j) ==
    IF j >= Len(doc) \/ st.raised THEN st ELSE ScanAll(ScanLine(st, doc, j), doc, j + 1)

\* what the conversion of a block returns: a text that is the block's own
\* (ruff prints the same for the same code), here a title line and the
\* lines of the block
convert_block(block) == <<Line("tabs", block[1].n)>> \o block

NotWritten == [written |-> FALSE, text |-> <<>>]

\* a collection of the results that takes them for the blocks in the
\* order of the document, whatever block a result is of
CollectInDocumentOrder(replaced, keys, index, result) ==
    DictPut(replaced, CHOOSE k \in keys \ DOMAIN replaced : \A m \in keys \ DOMAIN replaced : k <= m, result)

\* `index = fs[future]; to_replace[index] = future.result()`
Collect(replaced, keys, index, result) == DictPut(replaced, index, result)

\* `for i, line in enumerate(new_lines): line = to_replace.get(i, line);
\* output += line + "\n"`, the first n lines
RECURSIVE Output(_, _, _)
Output(skeleton, replaced, n) ==
    IF n = 0 THEN <<>>
    ELSE Output(skeleton, replaced, n - 1) \o (IF (n - 1) \in DOMAIN replaced THEN replaced[n - 1] ELSE <<skeleton[n]>>)

\* extract_blocks_from_file, called by on_files for the page: the whole
\* scan of _extract_code_blocks; a RuntimeError of the scan leaves
\* on_files; a page without blocks to convert stays as it is; any other
\* page is pointed at its temporary file and its transformation is queued
extract_blocks_from_file ==
    /\ fpc = "files"
    /\ LET st == ScanAll(Locals, lines, 0)
       IN /\ in_block' = st.in_block
          /\ enabled' = st.enabled
          /\ new_lines' = st.new_lines
          /\ to_transform' = st.to_transform
          /\ start' = st.start
          /\ xpc' = IF st.raised THEN "error" ELSE "done"
          /\ line_no' = Len(lines)
          /\ fpc' = IF st.raised THEN "raised" ELSE "pool"
          /\ abs_src_path' = IF ~st.raised /\ st.to_transform # EmptyDict THEN "tmp" ELSE abs_src_path
          /\ tpc' = IF ~st.raised /\ st.to_transform # EmptyDict THEN "collect" ELSE "none"
    /\ UNCHANGED <<lines, tmp_docs_file, to_replace, completed>>

\* as_completed yields the future of the block at index and
\* future.result() is read: the converted text, or the exception of the
\* conversion, which leaves _transform_pending
FutureResult(index, ok) ==
    /\ tpc = "collect"
    /\ index \in (DOMAIN to_transform) \ (DOMAIN to_replace)
    /\ IF ok
       THEN /\ to_replace' = Collect(to_replace, DOMAIN to_transform, index, convert_block(to_transform[index]))
            /\ completed' = Append(completed, index)
            /\ tpc' = "collect"
       ELSE /\ tpc' = "raised"
            /\ UNCHANGED <<to_replace, completed>>
    /\ UNCHANGED <<abs_src_path, tmp_docs_file, fpc, extract_vars>>

\* every result is collected: the output is built in one pass over
\* new_lines and written to the temporary file
WriteText ==
    /\ tpc = "collect"
    /\ DOMAIN to_replace = DOMAIN to_transform
    /\ tmp_docs_file' = [written |-> TRUE, text |-> Output(new_lines, to_replace, Len(new_lines))]
    /\ tpc' = "written"
    /\ UNCHANGED <<abs_src_path, to_replace, completed, fpc, extract_vars>>

\* concurrent.futures.wait(fs, return_when=ALL_COMPLETED) returns when the
\* task has ended, by returning or by raising; the futures of fs are not
\* read, and on_files returns files
OnFilesReturn ==
    /\ fpc = "pool"
    /\ tpc \in {"none", "written", "raised"}
    /\ fpc' = "returned"
    /\ UNCHANGED <<abs_src_path, tmp_docs_file, to_replace, completed, tpc, extract_vars>>

\* on_files has not been called
NoPending ==
    /\ abs_src_path = "source"
    /\ tmp_docs_file = NotWritten
    /\ to_replace = EmptyDict
    /\ completed = <<>>
    /\ tpc = "none"
    /\ fpc = "files"

(***************************************************************************)
(* Cache() on a content directory some of whose files cannot be read (no   *)
(* permission, or bytes that are not text): file.read_text raises in the   *)
(* worker thread and future.result() raises it again in _load.             *)
(***************************************************************************)
\* `for future in as_completed(futures): cache[...] = future.result()`
\* raises as soon as the future of a file that cannot be read is yielded
_load_raises(d, bad) == (DOMAIN _init_cache_dir(d).files) \cap bad # {}

\* cache = Cache(): __init__ calls _load; when a read raises, the exception
\* leaves __init__ after _init_cache_dir has made the directory, and there
\* is no Cache object
LoadCache ==
    /\ lpc = "new"
    /\ IF _load_raises(Dir, unreadable)
       THEN /\ lpc' = "raised"
            /\ cache_dir' = _init_cache_dir(Dir).exists
            /\ op' = OpRecord("init", NoKey, None, FALSE, None)
            /\ UNCHANGED <<_cache, _touched, cache_content_dir, loaded, last_set>>
       ELSE /\ lpc' = "constructed"
            /\ NewCacheOn(Dir)
    /\ UNCHANGED unreadable

\* every file of the content directory can be read and the Cache exists
AllReadable ==
    /\ unreadable = {}
    /\ lpc = "constructed"

(***************************************************************************)
(* get_version_requirements called on its own, with any two version        *)
(* tuples, ordered or not.                                                 *)
(***************************************************************************)
ArgVersions == {<<major, minor>> : major \in (BaseMajor - 1)..(BaseMajor - 1 + MajorSpan), minor \in 0..MaxMinor}

\* versions = get_version_requirements(min_version, max_version)
CallGetVersionRequirements ==
    /\ gpc = "call"
    /\ requirements' = get_version_requirements(arg_min, arg_max)
    /\ gpc' = "done"
    /\ UNCHANGED <<arg_min, arg_max>>

\* no call of get_version_requirements is followed
NoVersionsCall ==
    /\ arg_min = <<BaseMajor, BaseMinor>>
    /\ arg_max = <<BaseMajor, BaseMinor>>
    /\ requirements = <<>>
    /\ gpc = "done"

(***************************************************************************)
(* The two rule sets of the one ruff run: RUFF_BASE_ARGS selects UP (the   *)
(* version-targeted upgrades) and F401 (unused imports) together, with     *)
(* --fix.                                                                  *)
(***************************************************************************)
\* the fix of a rule leaves its own output alone
Idempotent == {f \in [Codes -> Codes] : \A c \in Codes : f[f[c]] = f[c]}

\* _run_ruff with RUFF_BASE_ARGS: one process applies the fixes of every
\* selected rule, the upgrades and the removal of unused imports
RunRuffBothRules(source) == f401_fix[up_fix[source]]

\* code = _upgrade_code(code, min_version, cache) on a Cache without entries
UpgradeCodeCall ==
    /\ cpc = "call"
    /\ LET up == _upgrade_code(cl_code, versions[1], CacheObj, use_cache, RunRuffBothRules(cl_code))
       IN /\ cl_ret' = up.ret
          /\ _cache' = up.cache.mem
          /\ _touched' = up.cache.touched
          /\ UpgradeHistory(up, make_cache_key(cl_code, versions[1]))
    /\ cpc' = "done"
    /\ UNCHANGED <<up_fix, f401_fix, cl_code, cache_dir, cache_content_dir, loaded>>

\* no call of _upgrade_code on its own is followed
NoCleanup ==
    /\ up_fix = <<>>
    /\ f401_fix = <<>>
    /\ cl_code = EmptyText
    /\ cl_ret = EmptyText
    /\ cpc = "done"

(***************************************************************************)
(* A parallel sphinx build: each read process works on the copy of the     *)
(* environment it got when it was forked, the Cache included; the main     *)
(* process merges the environment a process sends back with                *)
(* on_env_merge_info.                                                      *)
(***************************************************************************)
Workers == 1..NumWorkers

NotForked == [state |-> "idle", mem |-> EmptyDict, touched |-> {}, sets |-> EmptyDict]

\* dict.update: the entries of other replace those of d
DictUpdate(d, other) == [k \in (DOMAIN d) \cup (DOMAIN other) |-> IF k \in DOMAIN other THEN other[k] ELSE d[k]]

\* the read process w is forked: its environment is a copy of the main one
Fork(w) ==
    /\ phase = "reading"
    /\ workers[w].state = "idle"
    /\ workers' = [workers EXCEPT ![w] = [state |-> "running", mem |-> _cache, touched |-> _touched, sets |-> EmptyDict]]
    /\ UNCHANGED <<cache_vars, vc_vars, build_vars>>

\* one _upgrade_code call of version_code in the read process w, on the
\* Cache of its own environment
WorkerUpgrade(w, c) ==
    /\ workers[w].state = "running"
    /\ \E ruff_out \in _run_ruff(c, versions[1][2]) :
          LET up == _upgrade_code(c, versions[1], [mem |-> workers[w].mem, touched |-> workers[w].touched], TRUE, ruff_out)
          IN /\ workers' = [workers EXCEPT ![w] = [state |-> "running", mem |-> up.cache.mem, touched |-> up.cache.touched,
                                                   sets |-> IF up.ran THEN DictPut(@.sets, make_cache_key(c, versions[1]), ruff_out) ELSE @.sets]]
             /\ ruff_memo' = IF up.ran THEN DictPut(ruff_memo, <<c, versions[1][2]>>, ruff_out) ELSE ruff_memo
    /\ UNCHANGED <<cache_vars, build_vars>>
    /\ UNCHANGED <<versions, use_cache, pc, code, idx, latest_code, versioned_code, upgraded_code, ran_ruff, calls, out>>

\* sphinx_ext.on_env_merge_info for the environment the read process w sent
\* back: `cache._touched.update(other_cache._touched);
\* cache._cache.update(other_cache._cache)`
on_env_merge_info(w) ==
    /\ phase = "reading"
    /\ workers[w].state = "running"
    /\ use_cache
    /\ _touched' = _touched \cup workers[w].touched
    /\ _cache' = DictUpdate(_cache, workers[w].mem)
    /\ workers' = [workers EXCEPT ![w].state = "merged"]
    /\ UNCHANGED <<cache_dir, cache_content_dir, loaded, last_set, op, vc_vars, build_vars>>

\* build-finished of a parallel build: every read process has been merged
ParallelBuildFinished ==
    /\ \A w \in Workers : workers[w].state # "running"
    /\ on_build_finished(FALSE)
    /\ UNCHANGED workers

\* the build is not parallel
NoWorkers == workers = <<>>

(***************************************************************************)
(* The sphinx directives.  setup registers pytabs-code-block               *)
(* (PyTabsCodeBlock); on_config_inited registers CodeBlockOverride under   *)
(* the name code-block unless auto_pytabs_compat_mode.  A directive that   *)
(* expands its content hands the rendered lines to nested_parse_with_      *)
(* titles, which runs the directives they hold.                            *)
(***************************************************************************)
\* a directive in a document: its name, its language argument, whether it
\* has the no-upgrade option, its content, and how many expansions made it
Directive(name, language, no_upgrade, content, depth) ==
    [name |-> name, language |-> language, no_upgrade |-> no_upgrade, content |-> content, depth |-> depth]

\* the class registered under a directive name
DirectiveClass(name, compat_mode_) ==
    IF name = "pytabs-code-block" THEN "PyTabsCodeBlock"
    ELSE IF compat_mode_ THEN "CodeBlock" ELSE "CodeBlockOverride"

\* whether run() of the class ends in CodeBlock.run: the stock class
\* always, CodeBlockOverride with the no-upgrade option, PyTabsCodeBlock
\* (and CodeBlockOverride through super().run()) unless the argument is
\* python
RunsStock(d, compat_mode_) ==
    \/ DirectiveClass(d.name, compat_mode_) = "CodeBlock"
    \/ DirectiveClass(d.name, compat_mode_) = "CodeBlockOverride" /\ d.no_upgrade
    \/ d.language # "python"

\* the class attribute compat of the class that runs the directive
ClassCompat(name, compat_mode_) == DirectiveClass(name, compat_mode_) = "PyTabsCodeBlock"

RECURSIVE LStrip(_)
\* a line without the spaces it starts with
LStrip(line) == IF line # <<>> /\ line[1] = Space THEN LStrip(Tail(line)) ELSE line

\* the positions of the lines that open a code-block directive
CodeBlockHeads(lines_) == {i \in 1..Len(lines_) : LStrip(lines_[i]) = <<"..", Space, "code-block", "::", Space, "python">>}

RECURSIVE Ascending(_)
\* the elements of a set of numbers, least first
Ascending(S) ==
    IF S = {} THEN <<>>
    ELSE LET least == CHOOSE i \in S : \A j \in S : i <= j
         IN <<least>> \o Ascending(S \ {least})

\* the code-block directives that the parse of the rendered lines runs, in
\* the order of the lines; the content of the n-th is the code of the n-th
\* entry shown
GeneratedDirectives(lines_, shown, depth) ==
    LET heads == Ascending(CodeBlockHeads(lines_))
    IN [n \in 1..Len(heads) |->
          Directive("code-block", "python",
                    heads[n] < Len(lines_) /\ LStrip(lines_[heads[n] + 1]) = <<":", "no-upgrade", ":", Space>>,
                    shown[n].code, depth)]

\* docutils runs the next directive and the stock CodeBlock renders it
RunStock ==
    /\ pending # <<>>
    /\ RunsStock(pending[1], compat_mode)
    /\ stock_runs' = Append(stock_runs, pending[1])
    /\ pending' = Tail(pending)
    /\ UNCHANGED <<compat_mode, render_vars, vc_vars>>

\* docutils runs the next directive and it expands its content:
\* _create_py_tab_nodes renders the tabs and parses them, which runs the
\* directives they hold before any later directive of the document
RunExpand(reverse) ==
    /\ pending # <<>>
    /\ ~RunsStock(pending[1], compat_mode)
    /\ \E vc \in version_code(pending[1].content, versions, RuffTexts) :
          LET tabs == _create_tabs(vc, DefaultTemplate, "highest", reverse, ClassCompat(pending[1].name, compat_mode))
              shown == IF reverse /\ Len(vc) > 1 THEN Reversed(vc) ELSE vc
          IN /\ rendered' = tabs
             /\ versioned_code' = vc
             /\ code' = pending[1].content
             /\ pending' = GeneratedDirectives(tabs, shown, pending[1].depth + 1) \o Tail(pending)
    /\ reverse_order' = reverse
    /\ compat' = ClassCompat(pending[1].name, compat_mode)
    /\ rpc' = "sphinx"
    /\ UNCHANGED <<compat_mode, stock_runs, block_lines, tab_title_template, default_tab>>
    /\ UNCHANGED <<versions, use_cache, ruff_memo, pc, idx, latest_code, upgraded_code, ran_ruff, calls, out>>

\* the code-block directives a document can hold: the no-upgrade option is
\* known to CodeBlockOverride only
WrittenDirectives(compat_mode_) ==
    {Directive(name, language, no_upgrade, content, 0) :
        name \in {"code-block", "pytabs-code-block"}, language \in {"python", "json"},
        no_upgrade \in BOOLEAN, content \in {<<"a">>, <<"a", NL, "d">>}}
    \ {d \in [name : {"code-block", "pytabs-code-block"}, language : {"python", "json"}, no_upgrade : {TRUE},
              content : {<<"a">>, <<"a", NL, "d">>}, depth : {0}] :
          DirectiveClass(d.name, compat_mode_) # "CodeBlockOverride"}

\* no document is being parsed
NoDirectives ==
    /\ compat_mode = FALSE
    /\ pending = <<>>
    /\ stock_runs = <<>>

\* the sections on single functions and on parallel builds are not used
NoMore == NoVersionsCall /\ NoCleanup /\ NoWorkers /\ NoDirectives

(***************************************************************************)
(* Specifications.                                                         *)
(***************************************************************************)
\* the state of a Cache just constructed on directory d
Constructed(d) ==
    /\ _cache = _load(d).mem
    /\ _touched = _load(d).touched
    /\ cache_dir = _init_cache_dir(d).exists
    /\ cache_content_dir = _init_cache_dir(d).files
    /\ loaded = _load(d).mem
    /\ last_set = EmptyDict
    /\ op = OpRecord("init", NoKey, None, FALSE, None)

\* no block is being converted
Idle ==
    /\ ruff_memo = EmptyDict
    /\ pc = "idle"
    /\ code = EmptyText
    /\ idx = 1
    /\ latest_code = EmptyText
    /\ versioned_code = <<>>
    /\ upgraded_code = EmptyText
    /\ ran_ruff = FALSE
    /\ calls = 0
    /\ out = NoOutput

\* a sphinx build that is reading its documents
InBuild(nc) ==
    /\ framework = "sphinx"
    /\ no_cache = nc
    /\ phase = "reading"
    /\ exception = FALSE
    /\ persist_calls = <<>>
    /\ builds = 1

\* SpecCache: the calls a build can make on one Cache, constructed on any
\* directory an earlier build left, and the construction of the next one
InitCache ==
    /\ \E d \in DirsOnDisk : Constructed(d)
    /\ versions = get_version_requirements(<<BaseMajor, BaseMinor>>, <<BaseMajor, BaseMinor>>)
    /\ use_cache = TRUE
    /\ Idle
    /\ InBuild(FALSE)
    /\ ExtractStart(<<>>)
    /\ NoRender
    /\ ruff_failures = {}
    /\ NoPending
    /\ AllReadable
    /\ NoMore

NextCache ==
    \/ \E key \in SessionKeys : CallGet(key) /\ UNCHANGED <<vc_vars, build_vars, extract_vars, rest_vars>>
    \/ \E key \in SessionKeys, content \in Contents : CallSet(key, content) /\ UNCHANGED <<vc_vars, build_vars, extract_vars, rest_vars>>
    \/ \E evict \in BOOLEAN : CallPersist(evict) /\ UNCHANGED <<vc_vars, build_vars, extract_vars, rest_vars>>
    \/ CallClearAll /\ UNCHANGED <<vc_vars, build_vars, extract_vars, rest_vars>>
    \/ NewCache /\ UNCHANGED <<vc_vars, build_vars, extract_vars, rest_vars>>

SpecCache == InitCache /\ [][NextCache]_vars

\* SpecVC: a build on a fresh cache directory converts up to MaxCalls
\* blocks, with or without a Cache, for any configured version range
InitVC ==
    /\ Constructed([exists |-> FALSE, files |-> EmptyDict])
    /\ versions \in VersionLists
    /\ use_cache \in BOOLEAN
    /\ Idle
    /\ InBuild(~use_cache)
    /\ ExtractStart(<<>>)
    /\ NoRender
    /\ ruff_failures = {}
    /\ NoPending
    /\ AllReadable
    /\ NoMore

NextVC ==
    \/ \E c \in Codes : ConvertStart(c) /\ UNCHANGED <<build_vars, extract_vars, rest_vars>>
    \/ UpgradeStep /\ UNCHANGED <<build_vars, extract_vars, rest_vars>>
    \/ ConvertFinish /\ UNCHANGED <<build_vars, extract_vars, rest_vars>>

SpecVC == InitVC /\ [][NextVC]_vars

\* SpecCached: the conversions of SpecVC in a build that has a Cache
InitCached ==
    /\ Constructed([exists |-> FALSE, files |-> EmptyDict])
    /\ versions \in VersionLists
    /\ use_cache = TRUE
    /\ Idle
    /\ InBuild(FALSE)
    /\ ExtractStart(<<>>)
    /\ NoRender
    /\ ruff_failures = {}
    /\ NoPending
    /\ AllReadable
    /\ NoMore

SpecCached == InitCached /\ [][NextVC]_vars

\* SpecBuild: up to MaxBuilds builds, one after the other, of one project
\* that starts without a cache directory
InitBuild ==
    /\ _cache = EmptyDict
    /\ _touched = {}
    /\ cache_dir = FALSE
    /\ cache_content_dir = EmptyDict
    /\ loaded = EmptyDict
    /\ last_set = EmptyDict
    /\ op = OpRecord("init", NoKey, None, FALSE, None)
    /\ versions \in VersionLists
    /\ use_cache = FALSE
    /\ Idle
    /\ framework \in Frameworks
    /\ no_cache \in BOOLEAN
    /\ phase = "config"
    /\ exception = FALSE
    /\ persist_calls = <<>>
    /\ builds = 1
    /\ ExtractStart(<<>>)
    /\ NoRender
    /\ ruff_failures = {}
    /\ NoPending
    /\ AllReadable
    /\ NoMore

NextBuild ==
    \/ on_env_before_read_docs /\ UNCHANGED <<extract_vars, rest_vars>>
    \/ on_files /\ UNCHANGED <<extract_vars, rest_vars>>
    \/ \E c \in Codes : phase = "reading" /\ ConvertStart(c) /\ UNCHANGED <<build_vars, extract_vars, rest_vars>>
    \/ phase = "reading" /\ UpgradeStep /\ UNCHANGED <<build_vars, extract_vars, rest_vars>>
    \/ phase = "reading" /\ ConvertFinish /\ UNCHANGED <<build_vars, extract_vars, rest_vars>>
    \/ \E exc \in BOOLEAN : on_build_finished(exc) /\ UNCHANGED <<extract_vars, rest_vars>>
    \/ on_post_build /\ UNCHANGED <<extract_vars, rest_vars>>
    \/ on_build_error /\ UNCHANGED <<extract_vars, rest_vars>>
    \/ StartBuild /\ UNCHANGED <<extract_vars, rest_vars>>

SpecBuild == InitBuild /\ [][NextBuild]_vars

\* SpecExtract: _extract_code_blocks on any document of at most MaxLines
\* lines
InitExtract ==
    /\ Constructed([exists |-> FALSE, files |-> EmptyDict])
    /\ versions = get_version_requirements(<<BaseMajor, BaseMinor>>, <<BaseMajor, BaseMinor>>)
    /\ use_cache = FALSE
    /\ Idle
    /\ InBuild(TRUE)
    /\ \E len \in 0..MaxLines : \E doc \in Docs(len) : ExtractStart(doc)
    /\ NoRender
    /\ ruff_failures = {}
    /\ NoPending
    /\ AllReadable
    /\ NoMore

NextExtract ==
    \/ ExtractLine /\ UNCHANGED <<cache_vars, vc_vars, build_vars, rest_vars>>
    \/ ExtractReturn /\ UNCHANGED <<cache_vars, vc_vars, build_vars, rest_vars>>

SpecExtract == InitExtract /\ [][NextExtract]_vars

\* SpecRender: one block of any indentation and body is rendered, by the
\* Markdown preprocessor or by a sphinx directive, for any configured
\* version range and whatever ruff prints
InitRender ==
    /\ Constructed([exists |-> FALSE, files |-> EmptyDict])
    /\ versions \in VersionLists
    /\ use_cache = FALSE
    /\ Idle
    /\ InBuild(TRUE)
    /\ ExtractStart(<<>>)
    /\ \E p \in Prefixes : \E body \in Bodies(p) : block_lines = FencedBlock(p, body)
    /\ tab_title_template = DefaultTemplate
    /\ default_tab = "highest"
    /\ reverse_order = FALSE
    /\ compat = FALSE
    /\ rendered = <<>>
    /\ rpc = "ready"
    /\ ruff_failures = {}
    /\ NoPending
    /\ AllReadable
    /\ NoMore

NextRender ==
    \/ \E template \in TabTitleTemplates : ConvertBlock(template) /\ UNCHANGED <<cache_vars, build_vars, extract_vars, ruff_vars, pending_vars, load_vars, more_vars>>
    \/ \E template \in TabTitleTemplates, strategy \in {"highest", "lowest"}, reverse \in BOOLEAN, compat_ \in BOOLEAN :
          _create_py_tab_nodes(template, strategy, reverse, compat_) /\ UNCHANGED <<cache_vars, build_vars, extract_vars, ruff_vars, pending_vars, load_vars, more_vars>>

SpecRender == InitRender /\ [][NextRender]_vars

\* SpecRuff: a build on a fresh cache directory converts up to MaxCalls
\* blocks while ruff may exit with an error or fail to start
InitRuff ==
    /\ Constructed([exists |-> FALSE, files |-> EmptyDict])
    /\ versions \in VersionLists
    /\ use_cache \in BOOLEAN
    /\ Idle
    /\ InBuild(~use_cache)
    /\ ExtractStart(<<>>)
    /\ NoRender
    /\ ruff_failures = {}
    /\ NoPending
    /\ AllReadable
    /\ NoMore

NextRuff ==
    \/ \E c \in Codes : RuffConvertStart(c) /\ UNCHANGED <<build_vars, extract_vars, render_vars, pending_vars, load_vars, more_vars>>
    \/ \E returncode \in ReturnCodes : UpgradeStepExit(returncode) /\ UNCHANGED <<build_vars, extract_vars, render_vars, pending_vars, load_vars, more_vars>>
    \/ UpgradeStepRaises /\ UNCHANGED <<build_vars, extract_vars, render_vars, pending_vars, load_vars, more_vars>>
    \/ RuffConvertFinish /\ UNCHANGED <<build_vars, extract_vars, render_vars, pending_vars, load_vars, more_vars>>

SpecRuff == InitRuff /\ [][NextRuff]_vars

\* SpecPending: on_files of the mkdocs plugin on one documentation page of
\* at most MaxLines lines, whose conversions complete in any order and may
\* fail
InitPending ==
    /\ Constructed([exists |-> FALSE, files |-> EmptyDict])
    /\ versions = get_version_requirements(<<BaseMajor, BaseMinor>>, <<BaseMajor, BaseMinor>>)
    /\ use_cache = FALSE
    /\ Idle
    /\ framework = "mkdocs"
    /\ no_cache = TRUE
    /\ phase = "reading"
    /\ exception = FALSE
    /\ persist_calls = <<>>
    /\ builds = 1
    /\ \E len \in 0..MaxLines : \E doc \in Docs(len) : ExtractStart(doc)
    /\ NoRender
    /\ ruff_failures = {}
    /\ NoPending
    /\ AllReadable
    /\ NoMore

NextPending ==
    \/ extract_blocks_from_file /\ UNCHANGED <<cache_vars, vc_vars, build_vars, render_vars, ruff_vars, load_vars, more_vars>>
    \/ \E index \in 0..MaxLines, ok \in BOOLEAN : FutureResult(index, ok) /\ UNCHANGED <<cache_vars, vc_vars, build_vars, render_vars, ruff_vars, load_vars, more_vars>>
    \/ WriteText /\ UNCHANGED <<cache_vars, vc_vars, build_vars, render_vars, ruff_vars, load_vars, more_vars>>
    \/ OnFilesReturn /\ UNCHANGED <<cache_vars, vc_vars, build_vars, render_vars, ruff_vars, load_vars, more_vars>>

SpecPending == InitPending /\ [][NextPending]_vars

\* SpecLoad: Cache() on a directory left by earlier builds, some of whose
\* files cannot be read, then calls on the Cache if there is one
InitLoad ==
    /\ \E d \in DirsOnDisk :
          /\ cache_dir = d.exists
          /\ cache_content_dir = d.files
          /\ unreadable \in SUBSET (DOMAIN d.files)
    /\ _cache = EmptyDict
    /\ _touched = {}
    /\ loaded = EmptyDict
    /\ last_set = EmptyDict
    /\ op = OpRecord("new", NoKey, None, FALSE, None)
    /\ lpc = "new"
    /\ versions = get_version_requirements(<<BaseMajor, BaseMinor>>, <<BaseMajor, BaseMinor>>)
    /\ use_cache = TRUE
    /\ Idle
    /\ InBuild(FALSE)
    /\ ExtractStart(<<>>)
    /\ NoRender
    /\ ruff_failures = {}
    /\ NoPending
    /\ NoMore

NextLoad ==
    \/ LoadCache /\ UNCHANGED <<vc_vars, build_vars, extract_vars, render_vars, ruff_vars, pending_vars, more_vars>>
    \/ \E key \in SessionKeys : lpc = "constructed" /\ CallGet(key) /\ UNCHANGED <<vc_vars, build_vars, extract_vars, rest_vars>>
    \/ \E key \in SessionKeys, content \in Contents : lpc = "constructed" /\ CallSet(key, content) /\ UNCHANGED <<vc_vars, build_vars, extract_vars, rest_vars>>
    \/ \E evict \in BOOLEAN : lpc = "constructed" /\ CallPersist(evict) /\ UNCHANGED <<vc_vars, build_vars, extract_vars, rest_vars>>

SpecLoad == InitLoad /\ [][NextLoad]_vars

\* the other sections at rest: a Cache on an empty directory, no build, no
\* document, nothing rendered
AtRest ==
    /\ Constructed([exists |-> FALSE, files |-> EmptyDict])
    /\ versions = get_version_requirements(<<BaseMajor, BaseMinor>>, <<BaseMajor, BaseMinor>>)
    /\ use_cache = TRUE
    /\ Idle
    /\ InBuild(FALSE)
    /\ ExtractStart(<<>>)
    /\ NoRender
    /\ ruff_failures = {}
    /\ NoPending
    /\ AllReadable

\* SpecVersions: one call of get_version_requirements on any two tuples
InitVersions ==
    /\ AtRest
    /\ NoCleanup
    /\ NoWorkers
    /\ NoDirectives
    /\ arg_min \in ArgVersions
    /\ arg_max \in ArgVersions
    /\ requirements = <<>>
    /\ gpc = "call"

NextVersions ==
    \/ CallGetVersionRequirements /\ UNCHANGED <<cache_vars, vc_vars, build_vars, extract_vars, render_vars, ruff_vars, pending_vars, load_vars, cleanup_vars, merge_vars, directive_vars>>

SpecVersions == InitVersions /\ [][NextVersions]_vars

\* SpecCleanup: one call of _upgrade_code, on any code and for any
\* behaviour of the two rule sets
InitCleanup ==
    /\ AtRest
    /\ NoVersionsCall
    /\ NoWorkers
    /\ NoDirectives
    /\ up_fix \in Idempotent
    /\ f401_fix \in Idempotent
    /\ cl_code \in Codes
    /\ cl_ret = EmptyText
    /\ cpc = "call"

NextCleanup ==
    \/ UpgradeCodeCall /\ UNCHANGED <<vc_vars, build_vars, extract_vars, render_vars, ruff_vars, pending_vars, load_vars, versions_vars, merge_vars, directive_vars>>

SpecCleanup == InitCleanup /\ [][NextCleanup]_vars

\* SpecMerge: a parallel sphinx build with a Cache constructed on any
\* directory an earlier build left, whose documents are read by
\* NumWorkers processes
InitMerge ==
    /\ \E d \in DirsOnDisk : Constructed(d)
    /\ versions = get_version_requirements(<<BaseMajor, BaseMinor>>, <<BaseMajor, BaseMinor>>)
    /\ use_cache = TRUE
    /\ Idle
    /\ InBuild(FALSE)
    /\ ExtractStart(<<>>)
    /\ NoRender
    /\ ruff_failures = {}
    /\ NoPending
    /\ AllReadable
    /\ NoVersionsCall
    /\ NoCleanup
    /\ workers = [w \in Workers |-> NotForked]
    /\ NoDirectives

NextMerge ==
    \/ \E w \in Workers : Fork(w) /\ UNCHANGED <<extract_vars, render_vars, ruff_vars, pending_vars, load_vars, versions_vars, cleanup_vars, directive_vars>>
    \/ \E w \in Workers, c \in 1..NumKeys : WorkerUpgrade(w, c) /\ UNCHANGED <<extract_vars, render_vars, ruff_vars, pending_vars, load_vars, versions_vars, cleanup_vars, directive_vars>>
    \/ \E w \in Workers : on_env_merge_info(w) /\ UNCHANGED <<extract_vars, render_vars, ruff_vars, pending_vars, load_vars, versions_vars, cleanup_vars, directive_vars>>
    \/ ParallelBuildFinished /\ UNCHANGED <<extract_vars, render_vars, ruff_vars, pending_vars, load_vars, versions_vars, cleanup_vars, directive_vars>>

SpecMerge == InitMerge /\ [][NextMerge]_vars

\* SpecDirective: docutils parses a document that holds one code-block
\* directive, in a sphinx project with or without compat mode
InitDirective ==
    /\ Constructed([exists |-> FALSE, files |-> EmptyDict])
    /\ versions \in VersionLists
    /\ use_cache = FALSE
    /\ Idle
    /\ InBuild(TRUE)
    /\ ExtractStart(<<>>)
    /\ NoRender
    /\ ruff_failures = {}
    /\ NoPending
    /\ AllReadable
    /\ NoVersionsCall
    /\ NoCleanup
    /\ NoWorkers
    /\ compat_mode \in BOOLEAN
    /\ \E d \in WrittenDirectives(compat_mode) : pending = <<d>>
    /\ stock_runs = <<>>

NextDirective ==
    \/ RunStock /\ UNCHANGED <<cache_vars, build_vars, extract_vars, ruff_vars, pending_vars, load_vars, versions_vars, cleanup_vars, merge_vars>>
    \/ \E reverse \in BOOLEAN : RunExpand(reverse) /\ UNCHANGED <<cache_vars, build_vars, extract_vars, ruff_vars, pending_vars, load_vars, versions_vars, cleanup_vars, merge_vars>>

SpecDirective == InitDirective /\ [][NextDirective]_vars

(***************************************************************************)
(* Claims about version_code and _upgrade_code (SpecVC).                   *)
(***************************************************************************)
\* what rewriting text for version yields in this build: the text
\* _upgrade_code returns for it (None while the build has not asked yet)
Rewrite(text, version) ==
    LET cached == DictGet(_cache, make_cache_key(text, version))
    IN IF use_cache /\ cached # None /\ cached # EmptyText THEN cached
       ELSE DictGet(ruff_memo, <<text, version[2]>>)

\* the position of a version in version_requirements
PosOf(version) == CHOOSE i \in 1..Len(versions) : versions[i] = version

\* the latest text in force just before the i-th version is tried: the
\* text of the last entry recorded for an earlier version
LatestBefore(i) ==
    LET earlier == {j \in 1..Len(versioned_code) : PosOf(versioned_code[j].version) < i}
    IN versioned_code[CHOOSE j \in earlier : \A k \in earlier : k <= j].code

\* C1: every version after the first that the walk has passed is a key of
\* the result exactly when rewriting the latest text in force before it
\* changes that text, and then its value is the rewritten text (so later
\* versions are rewritten on top of the previous variant); no two
\* consecutive entries hold the same text, and there are at most as many
\* entries as versions.
C1_WalkRecordsEveryChange ==
    pc # "idle" =>
        /\ \A i \in 2..(idx - 1) :
              LET lat == LatestBefore(i)
                  rw == Rewrite(lat, versions[i])
              IN /\ (versions[i] \in Keys(versioned_code)) <=> (rw # lat)
                 /\ versions[i] \in Keys(versioned_code) => versioned_code[Lookup(versioned_code, versions[i])].code = rw
        /\ \A j \in 1..(Len(versioned_code) - 1) : versioned_code[j].code # versioned_code[j + 1].code
        /\ Len(versioned_code) <= Len(versions)

\* C1 witness: a finished walk with a cache in which the first version
\* changed the code and a later version changed the result again
C1_Witness ==
    /\ pc = "done"
    /\ use_cache
    /\ Len(versioned_code) > 1
    /\ versioned_code[1].code # code
    /\ versioned_code[Len(versioned_code)].code # code

\* C2 as stated: the value under the first version is the input code itself.
C2_BaselineIsInput ==
    pc = "done" => versioned_code[1].version = versions[1] /\ versioned_code[1].code = code

\* C2 as amended: the first key of the result is the first version and its
\* value is the code rewritten for that first version (the input code itself
\* when that rewrite changes nothing).
C2_BaselineIsFirstRewrite ==
    pc = "done" => versioned_code[1].version = versions[1] /\ versioned_code[1].code = Rewrite(code, versions[1])

\* C2 witness: a finished walk whose first entry is not the input code
C2_Witness ==
    /\ pc = "done"
    /\ versioned_code[1].version = versions[1]
    /\ versioned_code[1].code # code

\* the case of C3: the rewrite for the lowest version changes the code and
\* no later version changes the result further
C3_Case ==
    /\ pc = "done"
    /\ Rewrite(code, versions[1]) # code
    /\ \A i \in 2..Len(versions) : Rewrite(Rewrite(code, versions[1]), versions[i]) = Rewrite(code, versions[1])

\* C3: when the rewrite for the lowest version already changes the code and
\* no later version changes it further, version_code returns one entry,
\* keyed by the lowest version and holding the rewritten text, and the block
\* is emitted as a single plain fenced block with that text.
C3_SingleRewrittenBlock ==
    C3_Case =>
        /\ versioned_code = <<Entry(versions[1], Rewrite(code, versions[1]))>>
        /\ out = [kind |-> "plain", body |-> <<Rewrite(code, versions[1])>>]

\* C3 witness: the case, over a range of several versions
C3_Witness == C3_Case /\ Len(versions) > 1

\* C4: in an _upgrade_code call with a cache, if the cache holds an entry
\* for the key (whatever its content) that content is returned and ruff is
\* not run; on a miss ruff is run and its output is stored under the key.
C4_HitNeverRunsRuff ==
    [][(pc = "loop" /\ idx' = idx + 1 /\ use_cache) =>
          LET cache_key == make_cache_key(latest_code, versions[idx])
          IN /\ cache_key \in DOMAIN _cache => (upgraded_code' = _cache[cache_key] /\ ~ran_ruff')
             /\ cache_key \notin DOMAIN _cache => (ran_ruff' /\ DictGet(_cache', cache_key) = upgraded_code')]_vars

C6_EvictLeavesOnlyTouched ==
    (op.name = "persist" /\ op.evict) =>
        /\ \A k \in DOMAIN cache_content_dir : k \in _touched
        /\ \A k \in (DOMAIN loaded) \ _touched : k \notin DOMAIN cache_content_dir

\* C6 witness: persist(evict=True) removed a loaded, untouched entry and
\* kept a touched one
C6_Witness ==
    /\ op.name = "persist"
    /\ op.evict
    /\ (DOMAIN loaded) \ _touched # {}
    /\ DOMAIN cache_content_dir # {}

\* C7: when persist has returned, every touched key with content in memory
\* is on disk with exactly that content.
C7_PersistWritesTouched ==
    op.name = "persist" =>
        \A k \in _touched \cap (DOMAIN _cache) : k \in DOMAIN cache_content_dir /\ cache_content_dir[k] = _cache[k]

\* C8: when persist(evict=True) has returned, no entry loaded at
\* construction and never touched is left in the in-memory map.
C8_EvictRemovesFromMemory ==
    (op.name = "persist" /\ op.evict) => \A k \in (DOMAIN loaded) \ _touched : k \notin DOMAIN _cache

C11_NoEvictKeepsFiles ==
    [][(op'.name = "persist" /\ ~op'.evict) =>
          \A k \in DOMAIN cache_content_dir :
             /\ k \in DOMAIN cache_content_dir'
             /\ k \notin _touched => cache_content_dir'[k] = cache_content_dir[k]]_vars

\* C11 witness: persist(evict=False) has written a touched entry over its
\* file and an untouched entry of memory is still on disk
C11_Witness ==
    /\ op.name = "persist"
    /\ ~op.evict
    /\ \E k \in (DOMAIN cache_content_dir) \cap (DOMAIN _cache) : k \notin _touched
    /\ \E k \in (DOMAIN cache_content_dir) \cap (DOMAIN last_set) \cap (DOMAIN loaded) : cache_content_dir[k] = last_set[k] /\ last_set[k] # loaded[k]

\* C15: when clear_all has returned, the in-memory map and the touched set
\* are empty, the cache directory does not exist, and a get of any key
\* returns None.
C15_ClearAllEmptiesEverything ==
    op.name = "clear_all" =>
        /\ _cache = EmptyDict
        /\ _touched = {}
        /\ ~cache_dir
        /\ cache_content_dir = EmptyDict
        /\ \A k \in SessionKeys : get(CacheObj, k).ret = None

\* C15 witness: clear_all has returned and left no directory and no entry
C15_Witness ==
    /\ op.name = "clear_all"
    /\ ~cache_dir
    /\ DOMAIN _cache = {}

(***************************************************************************)
(* Claims about the build (SpecBuild).                                     *)
(***************************************************************************)
\* C12: when a build with caching configured has ended with an exception,
\* its cache was persisted once, without eviction, and every entry that
\* was on disk when the build started is still on disk.
C12_FailureKeepsPriorEntries ==
    (phase = "finished" /\ exception /\ ~no_cache) =>
        /\ persist_calls = <<FALSE>>
        /\ \A k \in DOMAIN loaded : k \in DOMAIN cache_content_dir

\* C13: a build with caching configured that ends without an exception
\* has called persist exactly once, with eviction, and no persist call is
\* made before the build ends; with no_cache there is no cache, persist
\* is never called and every _upgrade_code call runs ruff.
C13_PersistOnceAtEnd ==
    [][/\ (phase' = "finished" /\ ~exception' /\ ~no_cache') => persist_calls' = <<TRUE>>
       /\ phase' # "finished" => persist_calls' = <<>>
       /\ no_cache' => (~use_cache' /\ persist_calls' = <<>> /\ _cache' = EmptyDict /\ (idx' = idx + 1 => ran_ruff'))]_vars

\* C14: what a build has set is on disk under the same key when the build
\* has ended well; the Cache the next build constructs holds every file of
\* the directory; and an _upgrade_code call of that build whose key was
\* loaded returns the loaded content without running ruff.
C14_PersistedEntryIsReused ==
    [][/\ (phase' = "finished" /\ ~exception' /\ use_cache') => \A k \in DOMAIN last_set' : DictGet(cache_content_dir', k) = last_set'[k]
       /\ (phase = "config" /\ phase' = "reading" /\ use_cache') => _cache' = cache_content_dir
       /\ (pc = "loop" /\ idx' = idx + 1 /\ use_cache) =>
             LET cache_key == make_cache_key(latest_code, versions[idx])
             IN (cache_key \in DOMAIN loaded /\ cache_key \notin DOMAIN last_set) => (upgraded_code' = loaded[cache_key] /\ ~ran_ruff')]_vars

(***************************************************************************)
(* Claims about _extract_code_blocks (SpecExtract).                        *)
(***************************************************************************)
\* the step closes a python block: the closing fence of a block is scanned
ClosesBlock == xpc = "scan" /\ xpc' = "scan" /\ in_block /\ ~in_block'

\* the lines of the block that the step closes
ClosedBlock == SubSeq(lines, start + 1, line_no + 1)

\* the step queues the block it closes for conversion
Queues ==
    /\ to_transform' = DictPut(to_transform, Len(new_lines), ClosedBlock)
    /\ new_lines' = Append(new_lines, Placeholder)

\* the step copies the block it closes verbatim
CopiesVerbatim ==
    /\ to_transform' = to_transform
    /\ new_lines' = new_lines \o ClosedBlock

\* C16: a block that is closed while conversion is enabled is kept from
\* conversion (copied verbatim) exactly when there is a line directly
\* before its opening fence and that line is a disable-block directive;
\* scanning a disable-block directive leaves the enabled flag as it was.
C16_DisableBlockScope ==
    [][/\ (ClosesBlock /\ enabled') => (CopiesVerbatim <=> (start >= 1 /\ lines[start].kind = "disable-block"))
       /\ (ClosesBlock /\ enabled') => (Queues <=> ~(start >= 1 /\ lines[start].kind = "disable-block"))
       /\ (xpc = "scan" /\ line_no' = line_no + 1 /\ lines[line_no + 1].kind = "disable-block") => enabled' = enabled]_vars

\* the effect of the most recent disable / enable directive among the
\* first n lines (true when there is none)
LastToggle(n) ==
    LET toggles == {j \in 1..n : lines[j].kind \in {"disable", "enable"}}
    IN IF toggles = {} THEN TRUE
       ELSE lines[CHOOSE j \in toggles : \A k \in toggles : k <= j].kind = "enable"

\* C17: the enabled flag is true at first and, after any lines, is the
\* effect of the most recent disable / enable directive scanned; a block
\* is queued for conversion only if the flag is true when its closing
\* fence is scanned; a block closed while the flag is false is copied
\* verbatim, and a block closed while it is true (and not preceded by a
\* disable-block directive) is queued.
C17_EnabledFollowsDirectives ==
    [][/\ xpc # "error" => enabled = LastToggle(line_no)
       /\ xpc' # "error" => enabled' = LastToggle(line_no')
       /\ (ClosesBlock /\ to_transform' # to_transform) => enabled'
       /\ (ClosesBlock /\ ~enabled') => CopiesVerbatim
       /\ (ClosesBlock /\ enabled' /\ start >= 1 /\ lines[start].kind # "disable-block") => Queues]_vars

\* C17 witness: of disable, python block, enable, python fence: the block
\* between disable and enable was copied verbatim and conversion is on
\* again
C17_Witness ==
    /\ xpc = "done"
    /\ Len(lines) = 4
    /\ lines[1].kind = "disable"
    /\ lines[2].kind = "py"
    /\ lines[3].kind = "fence"
    /\ lines[4].kind = "enable"
    /\ new_lines = <<lines[2], lines[3]>>
    /\ to_transform = EmptyDict
    /\ enabled

RECURSIVE MdInside(_)
\* whether line j ends inside a fenced block as Markdown reads the
\* document: any fence opens a block, only a bare fence closes it
MdInside(j) ==
    IF j = 0 THEN FALSE
    ELSE IF MdInside(j - 1) THEN lines[j].kind # "fence"
    ELSE lines[j].kind \in {"py", "fence", "other"}

\* C18: every fenced block that opens with another language tag and is
\* closed by a bare fence is in the skeleton, line for line and in order,
\* and no line of it is in an extracted block.
C18_OtherBlocksUntouched ==
    xpc = "done" =>
        \A s \in 1..Len(lines), e \in 1..Len(lines) :
            (/\ lines[s].kind = "other"
             /\ ~MdInside(s - 1)
             /\ e > s
             /\ lines[e].kind = "fence"
             /\ \A m \in (s + 1)..(e - 1) : lines[m].kind # "fence") =>
                LET InSpan(l) == l.n \in s..e
                IN /\ SelectSeq(new_lines, InSpan) = SubSeq(lines, s, e)
                   /\ \A k \in DOMAIN to_transform : \A m \in 1..Len(to_transform[k]) : ~InSpan(to_transform[k][m])

RECURSIVE PyInside(_)
\* whether line j ends inside a python block: a block opens at a line
\* that holds ```py and closes at the next fence after it
PyInside(j) ==
    IF j = 0 THEN FALSE
    ELSE IF lines[j].kind = "py" THEN TRUE
    ELSE IF lines[j].kind \in {"fence", "other"} THEN FALSE
    ELSE PyInside(j - 1)

\* the lines outside every python block that are no directive comments
OutsideLines == {j \in 1..Len(lines) : ~PyInside(j) /\ ~PyInside(j - 1) /\ lines[j].kind \notin PYTAB_DIRECTIVES \cup {"invalid"}}

\* C19: the lines of the document that are outside every python block and
\* are no directive comments are in the skeleton, each once, unchanged
\* and in the order of the document.
C19_OutsideLinesKept ==
    xpc = "done" =>
        LET IsOutside(l) == l.n \in OutsideLines
        IN SelectSeq(new_lines, IsOutside) = SelectSeq(lines, IsOutside)

\* C19 witness: text, a python block, a bare fence and text: the lines
\* around the placeholder are the lines around the block
C19_Witness ==
    /\ xpc = "done"
    /\ Len(lines) = 4
    /\ OutsideLines = {1, 4}
    /\ new_lines = <<lines[1], Placeholder, lines[4]>>

RECURSIVE Rebuild(_)
\* the first n lines of the skeleton with every placeholder replaced by
\* the raw lines of its block (the loop of UpgradePreprocessor.run with a
\* conversion that changes nothing)
Rebuild(n) ==
    IF n = 0 THEN <<>>
    ELSE Rebuild(n - 1) \o (IF (n - 1) \in DOMAIN to_transform THEN to_transform[n - 1] ELSE <<new_lines[n]>>)

\* C20: for a document whose blocks are all closed, every key of
\* to_transform is the index of a placeholder of the skeleton, the keys
\* increase in the order of the document, and the skeleton with its
\* placeholders replaced by their raw blocks holds every line of the
\* document that is no directive comment, once and in order.
C20_ExtractionReconstructs ==
    (xpc = "done" /\ ~in_block) =>
        /\ \A k \in DOMAIN to_transform : k + 1 \in 1..Len(new_lines) /\ new_lines[k + 1] = Placeholder
        /\ \A k1, k2 \in DOMAIN to_transform : k1 < k2 => to_transform[k1][1].n < to_transform[k2][1].n
        /\ LET NoDirective(l) == l.kind \notin PYTAB_DIRECTIVES
           IN SelectSeq(Rebuild(Len(new_lines)), NoDirective) = SelectSeq(lines, NoDirective)

\* C25: scanning a directive comment with an unknown keyword ends the
\* extraction with an error, whether the line is inside or outside a block
\* and whether conversion is enabled or not; an extraction that has raised
\* returns nothing, and an extraction that returns has met no such line.
C25_InvalidDirectiveFails ==
    [][/\ (xpc = "scan" /\ line_no' = line_no + 1 /\ lines[line_no + 1].kind = "invalid") => xpc' = "error"
       /\ xpc = "error" => xpc' = "error"
       /\ xpc' = "done" => \A j \in 1..Len(lines) : lines[j].kind # "invalid"]_vars

\* C25 witness: the extraction has raised on an unknown directive that is
\* inside a python block, with conversion disabled
C25_Witness ==
    /\ xpc = "error"
    /\ lines[line_no].kind = "invalid"
    /\ in_block
    /\ ~enabled

\* C26: when the document ends inside a python block, the extraction
\* returns a skeleton that holds the lines from the opening fence to the
\* end of the document verbatim (the other outcome the claim allows, an
\* error, is xpc = "error").
C26_UnterminatedBlockKept ==
    (xpc = "done" /\ in_block) =>
        LET FromOpening(l) == l.n > start
        IN SelectSeq(new_lines, FromOpening) = SubSeq(lines, start + 1, Len(lines))

(***************************************************************************)
(* Claims about rendering (SpecRender).                                    *)
(***************************************************************************)
\* C21: when the rewrite changes nothing for any version, the lines that
\* the Markdown preprocessor puts in place of a block are the lines of the
\* block, character for character.
C21_RoundTrip ==
    (rpc = "markdown" /\ versioned_code = <<Entry(versions[1], code)>>) => rendered = block_lines

\* the run of spaces or of tabs that the opening fence line starts with
FenceIndentation ==
    LET first_line == block_lines[1]
    IN IF first_line[1] \in {Space, Tab} THEN SubSeq(first_line, 1, LeadingRun(first_line, first_line[1])) ELSE <<>>

\* a line without its first n pieces
Drop(line, n) == SubSeq(line, n + 1, Len(line))

StartsWith(line, prefix) == Len(line) >= Len(prefix) /\ SubSeq(line, 1, Len(prefix)) = prefix

\* C22: every line that the conversion of a block emits starts with the
\* indentation of the block's opening fence line: the tab titles, the
\* fences and the code inside the tabs, and the lines between the tabs.
C22_EveryLineIndented ==
    rpc = "markdown" => \A i \in 1..Len(rendered) : StartsWith(rendered[i], FenceIndentation)

\* C22 witness: a block indented by two characters was rendered as tabs,
\* and the line between two tabs is the indentation alone
C22_Witness ==
    /\ rpc = "markdown"
    /\ Len(versioned_code) > 1
    /\ Len(FenceIndentation) = 2
    /\ \E i \in 1..Len(rendered) : rendered[i] = FenceIndentation

\* the rendered lines without the indentation of the block
Unindented == [i \in 1..Len(rendered) |-> Drop(rendered[i], Len(FenceIndentation))]

\* the positions of the lines of Unindented that open a tab: === "<title>"
TabLines == {i \in 1..Len(rendered) : StartsWith(Unindented[i], <<"===", Space, Quote>>)}

\* the positions of the rendered lines that open a tab-item directive
TabItemLines == {i \in 1..Len(rendered) : StartsWith(rendered[i], Indent4 \o <<"..", Space, "tab-item", "::", Space>>)}

\* the k-th smallest element of a set of positions
RECURSIVE Nth(_, _)
Nth(S, k) ==
    LET least == CHOOSE i \in S : \A j \in S : i <= j
    IN IF k = 1 THEN least ELSE Nth(S \ {least}, k - 1)

\* the title of the tab of an entry
TitleOf(e) == format(tab_title_template, version_string(e.version))

\* a list of lines without the empty lines at its end
RECURSIVE TrimEnd(_)
TrimEnd(lines_) == IF lines_ # <<>> /\ lines_[Len(lines_)] = <<>> THEN TrimEnd(SubSeq(lines_, 1, Len(lines_) - 1)) ELSE lines_

\* lines hold the fenced block of text between the fences head_ and tail_
\* (empty lines at the end of the code are not compared)
HoldsFencedBlock(lines_, head_, text, tail_) ==
    /\ Len(lines_) >= 2
    /\ lines_[1] = head_
    /\ lines_[Len(lines_)] = tail_
    /\ TrimEnd(SubSeq(lines_, 2, Len(lines_) - 1)) = TrimEnd(splitlines(text))

\* the lines of the k-th tab of the Markdown output, after its title and
\* without the four spaces they start with
TabBody(k) ==
    LET from == Nth(TabLines, k) + 1
        to == IF k < Cardinality(TabLines) THEN Nth(TabLines, k + 1) - 2 ELSE Len(rendered)
    IN [i \in 1..(to - from + 1) |-> Drop(Unindented[from + i - 1], 4)]

VersionLess(a, b) == a[1] < b[1] \/ (a[1] = b[1] /\ a[2] < b[2])

\* the positions of the rendered lines that mark a tab item as selected
SelectedLines == {i \in 1..Len(rendered) : rendered[i] = Indent4 \o Indent4 \o <<":", "selected", ":", Space>>}

C27_RuffFailurePropagates ==
    [][/\ pc' = "done" => ruff_failures' = {}
       /\ \A k \in ruff_failures' \ ruff_failures : DictGet(_cache', k) = None]_vars

(***************************************************************************)
(* Claims about the mkdocs pipeline (SpecPending).                         *)
(***************************************************************************)
\* C28: on_files does not return when a conversion of the page has failed,
\* and when it has returned with the page pointed at its temporary file,
\* that file has been written.
C28_FailedConversionFailsBuild ==
    fpc = "returned" =>
        /\ tpc # "raised"
        /\ abs_src_path = "tmp" => tmp_docs_file.written

RECURSIVE RunOutput(_)
\* the first n lines of the skeleton with the blocks converted one after
\* the other in the order of the document (UpgradePreprocessor.run)
RunOutput(n) ==
    IF n = 0 THEN <<>>
    ELSE RunOutput(n - 1) \o (IF (n - 1) \in DOMAIN to_transform THEN convert_block(to_transform[n - 1]) ELSE <<new_lines[n]>>)

\* C29: the text written for a page is the skeleton with every placeholder
\* replaced by the conversion of its own block, whatever the order in
\* which the conversions completed.
C29_OrderIndependent ==
    tpc = "written" => (tmp_docs_file.written /\ tmp_docs_file.text = RunOutput(Len(new_lines)))

\* C29 witness: a page of two blocks was written after the conversion of
\* the second block completed before that of the first
C29_Witness ==
    /\ tpc = "written"
    /\ Len(completed) = 2
    /\ completed[1] > completed[2]

(***************************************************************************)
(* Claims about loading the cache (SpecLoad).                              *)
(***************************************************************************)
\* C30: constructing the cache succeeds whatever files of the content
\* directory cannot be read, and the constructed cache holds no entry for
\* such a file.
C30_UnreadableFileIsMiss ==
    /\ lpc # "raised"
    /\ lpc = "constructed" => \A key \in unreadable : DictGet(loaded, key) = None

(***************************************************************************)
(* Claims about failing writes of persist (SpecCache).                     *)
(***************************************************************************)
\* C31: a persist one of whose writes fails does not return normally: what
\* the caller gets is not the None of a successful call.
C31_WriteFailureSignalled ==
    [][(op'.name = "persist" /\ WriteFailures(CacheObj, Dir) # {}) => op'.ret # None]_vars

(***************************************************************************)
(* Claims about get_version_requirements (SpecVersions).                   *)
(***************************************************************************)
\* C32: the list get_version_requirements returns is strictly ascending
\* (major, then minor), holds exactly the pairs of a major of
\* min.major..max.major and a minor of min.minor..max.minor; when both
\* fields are ordered it has (max.major - min.major + 1) * (max.minor -
\* min.minor + 1) elements, the first is min and the last is max; when a
\* field of max is below that of min it is empty.
C32_CartesianProduct ==
    gpc = "done" =>
        LET r == requirements
            ordered == arg_min[1] <= arg_max[1] /\ arg_min[2] <= arg_max[2]
        IN /\ \A i, j \in 1..Len(r) : i < j => VersionLess(r[i], r[j])
           /\ {r[i] : i \in 1..Len(r)} = (arg_min[1]..arg_max[1]) \X (arg_min[2]..arg_max[2])
           /\ ordered =>
                /\ Len(r) = (arg_max[1] - arg_min[1] + 1) * (arg_max[2] - arg_min[2] + 1)
                /\ r[1] = arg_min
                /\ r[Len(r)] = arg_max
           /\ ~ordered => r = <<>>

\* C32 witness: a call over two majors and several minors has returned
C32_Witness ==
    /\ gpc = "done"
    /\ arg_min[1] < arg_max[1]
    /\ arg_min[2] < arg_max[2]
    /\ Len(requirements) >= 4

(***************************************************************************)
(* Further claims about version_code: its keys (SpecRender, where it is    *)
(* applied to the code of a block for every text ruff can print) and its   *)
(* cache (SpecCached).                                                     *)
(***************************************************************************)
\* C33: the keys of the mapping version_code returns are strictly
\* increasing in iteration order, each is one of the versions, and none
\* appears twice.
C33_KeysStrictlyIncreasing ==
    rpc # "ready" =>
        /\ \A i, j \in 1..Len(versioned_code) : i < j => VersionLess(versioned_code[i].version, versioned_code[j].version)
        /\ \A i \in 1..Len(versioned_code) : \E n \in 1..Len(versions) : versions[n] = versioned_code[i].version
        /\ Cardinality(Keys(versioned_code)) = Len(versioned_code)

\* C33 witness: a returned mapping of several entries whose first entry
\* was overwritten by the rewrite for the first version
C33_Witness ==
    /\ rpc # "ready"
    /\ Len(versioned_code) > 1
    /\ versioned_code[1].code # code

\* C34: for a range of one version the mapping version_code returns has
\* exactly one entry, keyed by that version.
C34_SingleVersionSingleEntry ==
    (rpc # "ready" /\ Len(versions) = 1) =>
        /\ Len(versioned_code) = 1
        /\ versioned_code[1].version = versions[1]

\* C34 witness: a conversion for one version returned after the rewrite
\* for that version changed the code
C34_Witness ==
    /\ rpc # "ready"
    /\ Len(versions) = 1
    /\ versioned_code[1].code # code

RECURSIVE UncachedWalk(_)
\* version_code(code, versions) without a cache, after its first n
\* versions: every _upgrade_code call is a run of ruff
UncachedWalk(n) ==
    IF n = 0 THEN [code |-> code, latest |-> code, versioned |-> <<Entry(versions[1], code)>>]
    ELSE LET st == UncachedWalk(n - 1)
         IN LoopBody(st, versions[n], DictGet(ruff_memo, <<st.latest, versions[n][2]>>))

\* C38: the mapping version_code returns with a cache is the mapping it
\* returns without one (same keys, same order, same texts), after any
\* earlier conversions with that cache.
C38_CacheTransparent ==
    pc = "done" => versioned_code = UncachedWalk(Len(versions)).versioned

\* C38 witness: the second conversion with a cache returned a mapping of
\* several entries whose last rewrite was answered by the cache
C38_Witness ==
    /\ pc = "done"
    /\ use_cache
    /\ calls = 2
    /\ ~ran_ruff
    /\ Len(versioned_code) > 1

(***************************************************************************)
(* Claims about the cleanup of unused imports (SpecCleanup).               *)
(***************************************************************************)
\* C36: when the upgrade rules leave the code unchanged, _upgrade_code
\* returns its input; when they change it, the returned and cached text is
\* the cleanup of unused imports applied to the upgraded code.
C36_CleanupOnlyAfterUpgrade ==
    cpc = "done" =>
        /\ up_fix[cl_code] = cl_code => cl_ret = cl_code
        /\ up_fix[cl_code] # cl_code =>
              /\ cl_ret = f401_fix[up_fix[cl_code]]
              /\ DictGet(_cache, make_cache_key(cl_code, versions[1])) = cl_ret

(***************************************************************************)
(* Claims about directive lines in the output (SpecExtract).               *)
(***************************************************************************)
\* C35: no line that is an enable, disable or disable-block directive is
\* in the skeleton or among the raw lines of an extracted block.
C35_DirectivesNeverCopied ==
    /\ \A n \in 1..Len(new_lines) : new_lines[n].kind \notin PYTAB_DIRECTIVES
    /\ \A k \in DOMAIN to_transform : \A n \in 1..Len(to_transform[k]) : to_transform[k][n].kind \notin PYTAB_DIRECTIVES

(***************************************************************************)
(* Claims about parallel builds (SpecMerge).                               *)
(***************************************************************************)
\* C37: when a parallel build has finished, the touched set of the main
\* cache is the union of the touched sets of the read processes, every
\* entry a read process set is in the main cache and on disk with the
\* content that process computed, and no file a read process touched has
\* been evicted.
C37_NoWorkLost ==
    phase = "finished" =>
        /\ _touched = UNION {workers[w].touched : w \in Workers}
        /\ \A w \in Workers : \A k \in DOMAIN workers[w].sets :
              /\ DictGet(_cache, k) = workers[w].sets[k]
              /\ DictGet(cache_content_dir, k) = workers[w].sets[k]
        /\ \A w \in Workers : \A k \in workers[w].touched \cap (DOMAIN loaded) : k \in DOMAIN cache_content_dir

(***************************************************************************)
(* Claims about the sphinx directives (SpecDirective).                     *)
(***************************************************************************)
\* C39: a code-block directive that an expansion generated is rendered by
\* the stock directive, in override mode because it carries the no-upgrade
\* option; and a directive whose language is not python is rendered by the
\* stock directive.
C39_ExpandedOnce ==
    \A n \in 1..Len(pending) :
        /\ pending[n].depth > 0 =>
              /\ RunsStock(pending[n], compat_mode)
              /\ ~compat_mode => pending[n].no_upgrade
        /\ pending[n].language # "python" => RunsStock(pending[n], compat_mode)

====
